---- MODULE Spec2Model ----
(***************************************************************************)
(* Leader election on Contiki-NG motes: the Bully node                     *)
(* (examples/bully/bully-node.c) and the Ring node                         *)
(* (examples/ring/ring-node.c).  Every mote runs one protocol process; the *)
(* radio is a single-hop broadcast medium that may reorder datagrams.      *)
(***************************************************************************)
EXTENDS Integers, FiniteSets, Sequences, TLC

VARIABLES bully, bully_net, bully_last, bully_clock,
          ring, ring_net, ring_last, ring_lost,
          prasle, prasle_net, prasle_k, prasle_lost

bully_vars == <<bully, bully_net, bully_last, bully_clock>>
ring_vars == <<ring, ring_net, ring_last, ring_lost>>
prasle_vars == <<prasle, prasle_net, prasle_k, prasle_lost>>
vars == <<bully, bully_net, bully_last, bully_clock, ring, ring_net, ring_last, ring_lost,
          prasle, prasle_net, prasle_k, prasle_lost>>

(***************************************************************************)
(* Bounds of the model.                                                    *)
(***************************************************************************)
\* election rounds one Bully node may start
MaxSeq == 2
\* Bully motes that may crash in one run
MaxCrashes == 1
\* datagram copies that may still be on the air when a mote sends
MaxInFlight == 1
\* elections started on the whole ring in one run
MaxRingElections == 2
\* datagrams (Ring) or broadcasts (PraSLE) the radio loses in one run
MaxLoss == 1
\* update steps a PraSLE mote executes in one run
MaxRounds == 12

U16 == 65536

(***************************************************************************)
(*                           BULLY  (bully-node.c)                         *)
(***************************************************************************)
MSG_ELECTION == 1
MSG_ANSWER == 2
MSG_COORDINATOR == 3
MSG_ALIVE == 4
MAX_NODES == 10
\* sizeof(bully_msg_t): u8 + padding + 3 * u16
BULLY_MSG_SIZE == 8

\* timer intervals, in seconds
ELECTION_TIMEOUT == 5
COORDINATOR_TIMEOUT == 20
ALIVE_INTERVAL == 8

STATE_NORMAL == "NORMAL"
STATE_ELECTION == "ELECTION"
STATE_WAITING_COORDINATOR == "WAITING_COORDINATOR"

\* the motes of the simulation; simMoteID of mote i is i
BullyMotes == {1, 2, 3}

bully_msg_t(type, node_id, target_id, sequence) ==
    [type |-> type, node_id |-> node_id, target_id |-> target_id,
     sequence |-> sequence, len |-> BULLY_MSG_SIZE]

\* module-scope state of one mote right after the static initialisers, with
\* my_node_id already read from simMoteID and the receive callback registered
BullyBoot(id) ==
    [pc |-> "delay",
     my_node_id |-> IF id = 0 THEN 1 ELSE id,
     state |-> STATE_NORMAL,
     current_leader |-> 0,
     election_sequence |-> 0,
     election_response_received |-> FALSE,
     last_seen_sequence |-> [i \in 1..MAX_NODES |-> 0],
     election_timer |-> FALSE,
     coordinator_timer |-> FALSE,
     alive_timer |-> FALSE]

\* the result of a handler: the mote's new state and the datagrams it sent
Res(node, out) == [node |-> node, out |-> out]

send_message(s, msg_type, target_id, sequence) ==
    bully_msg_t(msg_type, s.my_node_id, target_id, sequence)

broadcast_message(s, msg_type, sequence) ==
    bully_msg_t(msg_type, s.my_node_id, 0, sequence)

\* mutant: the filter forgets to record the sequence it lets through
is_duplicate_message_norecord(last_seen, sender_id, sequence) ==
    IF sender_id = 0 \/ sender_id > MAX_NODES
    THEN [dup |-> FALSE, table |-> last_seen]
    ELSE [dup |-> last_seen[sender_id] >= sequence, table |-> last_seen]

\* returns the verdict and the updated table
is_duplicate_message(last_seen, sender_id, sequence) ==
    IF sender_id = 0 \/ sender_id > MAX_NODES
    THEN [dup |-> FALSE, table |-> last_seen]
    ELSE IF last_seen[sender_id] >= sequence
         THEN [dup |-> TRUE, table |-> last_seen]
         ELSE [dup |-> FALSE, table |-> [last_seen EXCEPT ![sender_id] = sequence]]

\* mutant: a new election keeps the ANSWER flag of the one before
start_election_keep_flag(s) ==
    IF s.state = STATE_ELECTION
    THEN Res(s, {})
    ELSE LET seq == (s.election_sequence + 1) % U16
             s1 == [s EXCEPT !.state = STATE_ELECTION,
                             !.election_sequence = seq]
         IN Res(s1, {broadcast_message(s1, MSG_ELECTION, seq)})

\* mutant: an election is started again while one is in progress
start_election_restart(s) ==
    LET seq == (s.election_sequence + 1) % U16
        s1 == [s EXCEPT !.state = STATE_ELECTION,
                        !.election_sequence = seq,
                        !.election_response_received = FALSE]
    IN Res(s1, {broadcast_message(s1, MSG_ELECTION, seq)})

start_election(s) ==
    IF s.state = STATE_ELECTION
    THEN Res(s, {})
    ELSE LET seq == (s.election_sequence + 1) % U16
             s1 == [s EXCEPT !.state = STATE_ELECTION,
                             !.election_sequence = seq,
                             !.election_response_received = FALSE]
         IN Res(s1, {broadcast_message(s1, MSG_ELECTION, seq)})

\* mutant: a mote that answers an ELECTION also starts its own election
on_election_own_election(s, msg) ==
    IF msg.target_id = 0 \/ msg.target_id = s.my_node_id
    THEN IF s.my_node_id > msg.node_id
         THEN LET r == start_election(s)
              IN Res(r.node,
                     {send_message(s, MSG_ANSWER, msg.node_id, msg.sequence)}
                     \cup r.out)
         ELSE Res(s, {})
    ELSE Res(s, {})

\* case MSG_ELECTION
on_election(s, msg) ==
    IF msg.target_id = 0 \/ msg.target_id = s.my_node_id
    THEN IF s.my_node_id > msg.node_id
         THEN Res(s, {send_message(s, MSG_ANSWER, msg.node_id, msg.sequence)}
                     \cup (IF s.current_leader = s.my_node_id
                           THEN {broadcast_message(s, MSG_COORDINATOR, s.election_sequence)}
                           ELSE {}))
         ELSE Res(s, {})
    ELSE Res(s, {})

\* mutant: an ANSWER is acted on in every state
on_answer_any_state(s, msg) ==
    IF msg.target_id = s.my_node_id
    THEN Res([s EXCEPT !.election_response_received = TRUE,
                       !.state = STATE_WAITING_COORDINATOR,
                       !.coordinator_timer = TRUE], {})
    ELSE Res(s, {})

\* case MSG_ANSWER
on_answer(s, msg) ==
    IF msg.target_id = s.my_node_id /\ s.state = STATE_ELECTION
    THEN Res([s EXCEPT !.election_response_received = TRUE,
                       !.state = STATE_WAITING_COORDINATOR,
                       !.coordinator_timer = TRUE], {})
    ELSE Res(s, {})

\* mutant: every COORDINATOR is accepted, lower senders included
on_coordinator_accept_any(s, msg) ==
    Res([s EXCEPT !.current_leader = msg.node_id,
                  !.state = STATE_NORMAL,
                  !.coordinator_timer = TRUE], {})

\* mutant: accepting a COORDINATOR also clears the ANSWER flag
on_coordinator_clear_flag(s, msg) ==
    IF msg.node_id >= s.my_node_id
    THEN Res([s EXCEPT !.current_leader = msg.node_id,
                       !.state = STATE_NORMAL,
                       !.election_response_received = FALSE,
                       !.coordinator_timer = TRUE], {})
    ELSE IF s.state # STATE_ELECTION
         THEN LET r == start_election(s)
              IN Res([r.node EXCEPT !.election_timer = TRUE], r.out)
         ELSE Res(s, {})

\* case MSG_COORDINATOR
on_coordinator(s, msg) ==
    IF msg.node_id >= s.my_node_id
    THEN Res([s EXCEPT !.current_leader = msg.node_id,
                       !.state = STATE_NORMAL,
                       !.coordinator_timer = TRUE], {})
    ELSE IF s.state # STATE_ELECTION
         THEN LET r == start_election(s)
              IN Res([r.node EXCEPT !.election_timer = TRUE], r.out)
         ELSE Res(s, {})

\* mutant: a higher ALIVE is adopted only without a leader or while waiting
on_alive_no_takeover(s, msg) ==
    IF msg.node_id > s.my_node_id
       /\ (s.current_leader = 0 \/ s.state = STATE_WAITING_COORDINATOR)
    THEN Res([s EXCEPT !.current_leader = msg.node_id,
                       !.state = STATE_NORMAL,
                       !.coordinator_timer = TRUE], {})
    ELSE IF msg.node_id = s.current_leader
         THEN Res([s EXCEPT !.coordinator_timer = TRUE], {})
         ELSE Res(s, {})

\* mutant: an ALIVE of the current leader does not rearm coordinator_timer
on_alive_no_rearm(s, msg) ==
    IF msg.node_id > s.my_node_id
       /\ (s.current_leader = 0
           \/ s.state = STATE_WAITING_COORDINATOR
           \/ msg.node_id > s.current_leader)
    THEN Res([s EXCEPT !.current_leader = msg.node_id,
                       !.state = STATE_NORMAL,
                       !.coordinator_timer = TRUE], {})
    ELSE Res(s, {})

\* case MSG_ALIVE
on_alive(s, msg) ==
    IF msg.node_id > s.my_node_id
       /\ (s.current_leader = 0
           \/ s.state = STATE_WAITING_COORDINATOR
           \/ msg.node_id > s.current_leader)
    THEN Res([s EXCEPT !.current_leader = msg.node_id,
                       !.state = STATE_NORMAL,
                       !.coordinator_timer = TRUE], {})
    ELSE IF msg.node_id = s.current_leader
         THEN Res([s EXCEPT !.coordinator_timer = TRUE], {})
         ELSE Res(s, {})

\* mutant: the filter is run for every message type
filtered_every_type(msg) == TRUE

\* the duplicate check of handle_message: it runs the filter (and so records
\* the sequence) for every type that is not ALIVE, ANSWER or COORDINATOR
filtered(msg) ==
    msg.type # MSG_ALIVE /\ msg.type # MSG_ANSWER /\ msg.type # MSG_COORDINATOR

handle_message(s, msg) ==
    IF msg.len # BULLY_MSG_SIZE THEN Res(s, {})
    ELSE IF msg.node_id = s.my_node_id THEN Res(s, {})
    ELSE LET chk == is_duplicate_message(s.last_seen_sequence, msg.node_id, msg.sequence)
             s1 == IF filtered(msg) THEN [s EXCEPT !.last_seen_sequence = chk.table] ELSE s
         IN IF filtered(msg) /\ chk.dup THEN Res(s, {})
            ELSE CASE msg.type = MSG_ELECTION -> on_election(s1, msg)
                   [] msg.type = MSG_ANSWER -> on_answer(s1, msg)
                   [] msg.type = MSG_COORDINATOR -> on_coordinator(s1, msg)
                   [] msg.type = MSG_ALIVE -> on_alive(s1, msg)
                   [] OTHER -> Res(s1, {})

\* end of the random delay: the first election and the three timers
bully_startup(s) ==
    LET r == start_election(s)
    IN Res([r.node EXCEPT !.pc = "run", !.election_timer = TRUE,
                          !.coordinator_timer = TRUE, !.alive_timer = TRUE], r.out)

\* mutant: the expiry does not look at the state of the mote
on_election_timer_any_state(s) ==
    LET s0 == [s EXCEPT !.election_timer = FALSE]
    IN IF ~s.election_response_received
       THEN LET s1 == [s0 EXCEPT !.current_leader = s.my_node_id,
                                 !.state = STATE_NORMAL,
                                 !.alive_timer = TRUE]
            IN Res(s1, {broadcast_message(s1, MSG_COORDINATOR, s.election_sequence)})
       ELSE Res(s0, {})

\* main loop, data == &election_timer
on_election_timer(s) ==
    LET s0 == [s EXCEPT !.election_timer = FALSE]
    IN IF s.state = STATE_ELECTION \/ s.state = STATE_WAITING_COORDINATOR
       THEN IF ~s.election_response_received
            THEN LET s1 == [s0 EXCEPT !.current_leader = s.my_node_id,
                                      !.state = STATE_NORMAL,
                                      !.alive_timer = TRUE]
                 IN Res(s1, {broadcast_message(s1, MSG_COORDINATOR, s.election_sequence)})
            ELSE Res(s0, {})
       ELSE Res(s0, {})

\* mutant: the timeout of a silent leader is not acted upon
\* mutant: the election started on a coordinator timeout has no timeout
on_coordinator_timer_no_election_timer(s) ==
    LET r == IF s.state = STATE_WAITING_COORDINATOR \/ s.current_leader = 0
             THEN start_election(s)
             ELSE IF s.current_leader # s.my_node_id
                  THEN start_election([s EXCEPT !.current_leader = 0])
                  ELSE Res(s, {})
    IN Res([r.node EXCEPT !.coordinator_timer = TRUE], r.out)

on_coordinator_timer_no_detect(s) ==
    LET r == IF s.state = STATE_WAITING_COORDINATOR \/ s.current_leader = 0
             THEN LET e == start_election(s)
                  IN Res([e.node EXCEPT !.election_timer = TRUE], e.out)
             ELSE Res(s, {})
    IN Res([r.node EXCEPT !.coordinator_timer = TRUE], r.out)

\* main loop, data == &coordinator_timer
on_coordinator_timer(s) ==
    LET r == IF s.state = STATE_WAITING_COORDINATOR \/ s.current_leader = 0
             THEN LET e == start_election(s)
                  IN Res([e.node EXCEPT !.election_timer = TRUE], e.out)
             ELSE IF s.current_leader # s.my_node_id
                  THEN LET e == start_election([s EXCEPT !.current_leader = 0])
                       IN Res([e.node EXCEPT !.election_timer = TRUE], e.out)
                  ELSE Res(s, {})
    IN Res([r.node EXCEPT !.coordinator_timer = TRUE], r.out)

\* main loop, data == &alive_timer
on_alive_timer(s) ==
    Res([s EXCEPT !.alive_timer = TRUE],
        IF s.current_leader = s.my_node_id
        THEN {broadcast_message(s, MSG_ALIVE, s.election_sequence)}
        ELSE {})

(***************************************************************************)
(* The Bully system: three motes, the radio, the timers.                   *)
(* bully[i]   the module-scope state of mote i (pc: "delay" while the      *)
(*            process waits for random_delay_timer, "run" in the main      *)
(*            loop, "dead" once the mote has crashed)                      *)
(* bully_net  datagrams on the air, one copy per receiving mote            *)
(* bully_last what the last handler did: which handler, on which mote, on  *)
(*            which kind of datagram, from which state and leader, and the *)
(*            datagrams it sent; op = "off" where no record is kept        *)
(* bully_clock  the seconds left on the three etimers of every mote and    *)
(*            whether the last ALIVE sent to it was lost; <<>> in the      *)
(*            specifications that abstract from time                       *)
(***************************************************************************)
NoMsg == [type |-> 0, node_id |-> 0, target_id |-> 0, sequence |-> 0, len |-> 0]

BullyLast(op, n, msg, pre, out) ==
    [op |-> op, node |-> n, ok |-> (msg.len = BULLY_MSG_SIZE), type |-> msg.type,
     from |-> msg.node_id, state |-> pre.state, leader |-> pre.current_leader, out |-> out]

\* one copy of every sent datagram for every other mote that is running
BullyCopies(n, out) ==
    {[m |-> msg, to |-> d] : msg \in out, d \in {x \in BullyMotes \ {n} : bully[x].pc # "dead"}}

\* mote n ran a handler with result r
BullyStepCore(op, n, msg, r, net) ==
    /\ r.node.election_sequence <= MaxSeq
    /\ r.out = {} \/ Cardinality(net) <= MaxInFlight
    /\ bully' = [bully EXCEPT ![n] = r.node]
    /\ bully_net' = net \cup BullyCopies(n, r.out)
    /\ bully_last' = IF bully_last.op = "off" THEN bully_last
                     ELSE BullyLast(op, n, msg, bully[n], r.out)
    /\ UNCHANGED <<ring_vars, prasle_vars>>

\* the same where the remaining time of the timers is not kept
BullyStep(op, n, msg, r, net) ==
    /\ BullyStepCore(op, n, msg, r, net)
    /\ UNCHANGED bully_clock

BullyStartup(n) ==
    /\ bully[n].pc = "delay"
    /\ BullyStep("startup", n, NoMsg, bully_startup(bully[n]), bully_net)

BullyReceive(p) ==
    /\ p \in bully_net
    /\ bully[p.to].pc # "dead"
    /\ BullyStep("recv", p.to, p.m, handle_message(bully[p.to], p.m), bully_net \ {p})

\* a timer that expires during the random delay only wakes
\* PROCESS_WAIT_EVENT_UNTIL, which keeps waiting
BullyTimerInDelay(n) ==
    /\ bully[n].pc = "delay"
    /\ \E t \in {"election_timer", "coordinator_timer"} :
          /\ bully[n][t]
          /\ BullyStep("wakeup", n, NoMsg, Res([bully[n] EXCEPT ![t] = FALSE], {}), bully_net)

BullyElectionTimer(n) ==
    /\ bully[n].pc = "run"
    /\ bully[n].election_timer
    /\ BullyStep("election_timer", n, NoMsg, on_election_timer(bully[n]), bully_net)

BullyCoordinatorTimer(n) ==
    /\ bully[n].pc = "run"
    /\ bully[n].coordinator_timer
    /\ BullyStep("coordinator_timer", n, NoMsg, on_coordinator_timer(bully[n]), bully_net)

BullyAliveTimer(n) ==
    /\ bully[n].pc = "run"
    /\ bully[n].alive_timer
    /\ BullyStep("alive_timer", n, NoMsg, on_alive_timer(bully[n]), bully_net)

\* crash-stop: the mote stops sending and receiving
BullyCrash(n) ==
    /\ bully[n].pc # "dead"
    /\ Cardinality({x \in BullyMotes : bully[x].pc = "dead"}) < MaxCrashes
    /\ bully' = [bully EXCEPT ![n].pc = "dead"]
    /\ bully_net' = {p \in bully_net : p.to # n}
    /\ UNCHANGED <<bully_last, bully_clock, ring_vars, prasle_vars>>

RingIdle ==
    /\ ring = <<>>
    /\ ring_net = {}
    /\ ring_last = 0
    /\ ring_lost = 0

PrasleIdle ==
    /\ prasle = <<>>
    /\ prasle_net = {}
    /\ prasle_k = 0
    /\ prasle_lost = 0

BullyInit ==
    /\ bully = [i \in BullyMotes |-> BullyBoot(i)]
    /\ bully_net = {}
    /\ bully_last = BullyLast("off", 0, NoMsg, BullyBoot(0), {})
    /\ bully_clock = <<>>
    /\ RingIdle
    /\ PrasleIdle

BullyNext ==
    \/ \E n \in BullyMotes : BullyStartup(n)
    \/ \E p \in bully_net : BullyReceive(p)
    \/ \E n \in BullyMotes : BullyElectionTimer(n)
    \/ \E n \in BullyMotes : BullyCoordinatorTimer(n)
    \/ \E n \in BullyMotes : BullyAliveTimer(n)

\* three motes 1, 2, 3 booting on a reliable radio
SpecBully == BullyInit /\ [][BullyNext]_vars

\* the state the happy path of SpecBully ends in: every mote has run its first
\* election, mote 3 has declared itself and motes 1 and 2 have accepted it
Established(i) ==
    [BullyBoot(i) EXCEPT !.pc = "run",
                         !.current_leader = 3,
                         !.election_sequence = 1,
                         !.election_response_received = (i # 3),
                         !.last_seen_sequence = [j \in 1..MAX_NODES |->
                                                   IF j \in BullyMotes \ {i} THEN 1 ELSE 0],
                         !.coordinator_timer = TRUE,
                         !.alive_timer = TRUE]

BullyCrashInit ==
    /\ bully = [i \in BullyMotes |-> Established(i)]
    /\ bully_net = {}
    /\ bully_last = BullyLast("off", 0, NoMsg, BullyBoot(0), {})
    /\ bully_clock = <<>>
    /\ RingIdle
    /\ PrasleIdle

BullyCrashNext ==
    \/ \E p \in bully_net : BullyReceive(p)
    \/ \E n \in BullyMotes : BullyElectionTimer(n)
    \/ \E n \in BullyMotes : BullyCoordinatorTimer(n)
    \/ \E n \in BullyMotes : BullyAliveTimer(n)
    \/ \E n \in BullyMotes : BullyCrash(n)

\* an elected leader 3, then heartbeats, timeouts and at most MaxCrashes crashes
SpecBullyCrash == BullyCrashInit /\ [][BullyCrashNext]_vars

\* every datagram copy the motes can put on the air
Packets ==
    {[m |-> bully_msg_t(t, f, g, q), to |-> d] :
        t \in {MSG_ELECTION, MSG_ANSWER, MSG_COORDINATOR, MSG_ALIVE},
        f \in BullyMotes, g \in {0} \cup BullyMotes, q \in 0..MaxSeq, d \in BullyMotes}

\* an armed etimer expires and the radio delivers what it carries
BullyFairness ==
    /\ \A n \in BullyMotes : WF_vars(BullyElectionTimer(n))
    /\ \A n \in BullyMotes : WF_vars(BullyCoordinatorTimer(n))
    /\ \A p \in Packets : WF_vars(BullyReceive(p))

\* the leader crash: mote 3 has just crashed in the established state
BullyLeaderCrashInit ==
    /\ bully = [i \in BullyMotes |->
                  IF i = 3 THEN [Established(i) EXCEPT !.pc = "dead"] ELSE Established(i)]
    /\ bully_net = {}
    /\ bully_last = BullyLast("off", 0, NoMsg, BullyBoot(0), {})
    /\ bully_clock = <<>>
    /\ RingIdle
    /\ PrasleIdle

BullyLeaderCrashNext ==
    \/ \E p \in bully_net : BullyReceive(p)
    \/ \E n \in BullyMotes : BullyElectionTimer(n)
    \/ \E n \in BullyMotes : BullyCoordinatorTimer(n)
    \/ \E n \in BullyMotes : BullyAliveTimer(n)

SpecBullyLeaderCrash ==
    BullyLeaderCrashInit /\ [][BullyLeaderCrashNext]_vars /\ BullyFairness

(***************************************************************************)
(* The Bully system near the end of the range of election_sequence: three  *)
(* motes that have each run 65535 elections, with mote 3 elected,          *)
(* each holding the latest sequence number of the others in                *)
(* last_seen_sequence.  Timeouts start further elections, which take the   *)
(* uint16_t counter through 65535.                                         *)
(***************************************************************************)
\* the last sequence number before the wrap and those of the MaxSeq - 1
\* elections after it
WrapSeqs == {(U16 - 1 + i) % U16 : i \in 0..(MaxSeq - 1)}

WrapEstablished(i, q) ==
    [Established(i) EXCEPT !.election_sequence = q,
                           !.last_seen_sequence =
                               [j \in 1..MAX_NODES |->
                                  IF j \in BullyMotes \ {i} THEN q ELSE 0]]

\* mote n ran a handler with result r
BullyWrapStep(op, n, msg, r, net) ==
    /\ r.node.election_sequence \in WrapSeqs
    /\ r.out = {} \/ Cardinality(net) <= MaxInFlight
    /\ bully' = [bully EXCEPT ![n] = r.node]
    /\ bully_net' = net \cup BullyCopies(n, r.out)
    /\ UNCHANGED <<bully_last, bully_clock, ring_vars, prasle_vars>>

BullyWrapReceive(p) ==
    /\ p \in bully_net
    /\ BullyWrapStep("recv", p.to, p.m, handle_message(bully[p.to], p.m),
                     bully_net \ {p})

BullyWrapElectionTimer(n) ==
    /\ bully[n].election_timer
    /\ BullyWrapStep("election_timer", n, NoMsg,
                     on_election_timer(bully[n]), bully_net)

BullyWrapCoordinatorTimer(n) ==
    /\ bully[n].coordinator_timer
    /\ BullyWrapStep("coordinator_timer", n, NoMsg,
                     on_coordinator_timer(bully[n]), bully_net)

BullyWrapAliveTimer(n) ==
    /\ bully[n].alive_timer
    /\ BullyWrapStep("alive_timer", n, NoMsg, on_alive_timer(bully[n]),
                     bully_net)

BullyWrapInit ==
    /\ bully = [i \in BullyMotes |-> WrapEstablished(i, U16 - 1)]
    /\ bully_net = {}
    /\ bully_last = BullyLast("off", 0, NoMsg, BullyBoot(0), {})
    /\ bully_clock = <<>>
    /\ RingIdle
    /\ PrasleIdle

BullyWrapNext ==
    \/ \E p \in bully_net : BullyWrapReceive(p)
    \/ \E n \in BullyMotes : BullyWrapElectionTimer(n)
    \/ \E n \in BullyMotes : BullyWrapCoordinatorTimer(n)
    \/ \E n \in BullyMotes : BullyWrapAliveTimer(n)

SpecBullyWrap == BullyWrapInit /\ [][BullyWrapNext]_vars

\* the established state is one SpecBully reaches
EstablishedReached == bully # [i \in BullyMotes |-> Established(i)]

(***************************************************************************)
(* The Bully system with time.  bully_clock[n][t] is the number of seconds *)
(* left on etimer t of mote n; time advances in steps of one second, an    *)
(* expired etimer is served and a datagram on the air is heard or lost     *)
(* before the next second begins.  etimer_set starts the interval anew,    *)
(* etimer_reset of an expired etimer starts the next interval at the       *)
(* expiry, and etimer_reset of a running etimer leaves it running.  The    *)
(* radio loses ALIVE datagrams, but never two in a row to the same mote.   *)
(***************************************************************************)
Timers == {"election_timer", "coordinator_timer", "alive_timer"}

Interval(t) ==
    CASE t = "election_timer" -> ELECTION_TIMEOUT
      [] t = "coordinator_timer" -> COORDINATOR_TIMEOUT
      [] t = "alive_timer" -> ALIVE_INTERVAL

\* the mote with every etimer stopped: the etimers that are armed in what a
\* handler makes of it are the ones the handler has set
Stopped(s) ==
    [s EXCEPT !.election_timer = FALSE, !.coordinator_timer = FALSE,
              !.alive_timer = FALSE]

\* the clock of a mote after a handler that has set the etimers armed in a
\* and has heard (or not) an ALIVE
Rearmed(c, a, set, heard) ==
    [t \in Timers \cup {"lost"} |->
        IF t = "lost" THEN c.lost /\ ~heard
        ELSE IF t \in set /\ a[t] THEN Interval(t) ELSE c[t]]

\* the mote Established(i) at a moment when its coordinator_timer has d
\* seconds left and its alive_timer a seconds
BullyClock(d, a) ==
    [election_timer |-> 0, coordinator_timer |-> d, alive_timer |-> a,
     lost |-> FALSE]

\* one second passes: nothing is on the air and no etimer is due
BullyTick ==
    /\ bully_net = {}
    /\ \A n \in BullyMotes : \A t \in Timers :
          (bully[n].pc = "run" /\ bully[n][t]) => bully_clock[n][t] > 0
    /\ bully_clock' =
          [n \in BullyMotes |->
              [t \in Timers \cup {"lost"} |->
                  IF t # "lost" /\ bully[n].pc = "run" /\ bully[n][t]
                  THEN bully_clock[n][t] - 1
                  ELSE bully_clock[n][t]]]
    /\ UNCHANGED <<bully, bully_net, bully_last, ring_vars, prasle_vars>>

\* election_timer of mote n expires; its etimer_reset(&alive_timer) finds
\* alive_timer running
BullyElectionTimeout(n) ==
    /\ bully[n].pc = "run" /\ bully[n].election_timer
    /\ bully_clock[n].election_timer = 0
    /\ BullyStepCore("election_timer", n, NoMsg, on_election_timer(bully[n]), bully_net)
    /\ UNCHANGED bully_clock

\* coordinator_timer of mote n expires
BullyCoordinatorTimeout(n) ==
    /\ bully[n].pc = "run" /\ bully[n].coordinator_timer
    /\ bully_clock[n].coordinator_timer = 0
    /\ BullyStepCore("coordinator_timer", n, NoMsg,
                     on_coordinator_timer(bully[n]), bully_net)
    /\ bully_clock' =
          [bully_clock EXCEPT ![n] =
              Rearmed(@, on_coordinator_timer(Stopped(bully[n])).node,
                      {"election_timer", "coordinator_timer"}, FALSE)]

\* alive_timer of mote n expires
BullyAliveTimeout(n) ==
    /\ bully[n].pc = "run" /\ bully[n].alive_timer
    /\ bully_clock[n].alive_timer = 0
    /\ BullyStepCore("alive_timer", n, NoMsg, on_alive_timer(bully[n]), bully_net)
    /\ bully_clock' =
          [bully_clock EXCEPT ![n] =
              Rearmed(@, on_alive_timer(Stopped(bully[n])).node,
                      {"alive_timer"}, FALSE)]

\* mote p.to hears the datagram p.m
BullyTimedReceive(p) ==
    /\ p \in bully_net
    /\ bully[p.to].pc # "dead"
    /\ BullyStepCore("recv", p.to, p.m, handle_message(bully[p.to], p.m),
                     bully_net \ {p})
    /\ bully_clock' =
          [bully_clock EXCEPT ![p.to] =
              Rearmed(@, handle_message(Stopped(bully[p.to]), p.m).node,
                      {"election_timer", "coordinator_timer"},
                      p.m.type = MSG_ALIVE)]

\* the copy of an ALIVE for mote p.to is lost; the one before it was not
BullyAliveLose(p) ==
    /\ p \in bully_net
    /\ p.m.type = MSG_ALIVE
    /\ ~bully_clock[p.to].lost
    /\ bully_net' = bully_net \ {p}
    /\ bully_clock' = [bully_clock EXCEPT ![p.to].lost = TRUE]
    /\ UNCHANGED <<bully, bully_last, ring_vars, prasle_vars>>

\* the phases of the leader's heartbeat relative to the followers' timers
AlivePhases == 1..ALIVE_INTERVAL

\* leader 3 established; motes 1 and 2 have just armed coordinator_timer on
\* a COORDINATOR or an ALIVE of 3, whose next ALIVE is due in a seconds
BullyTimedInit ==
    /\ bully = [i \in BullyMotes |-> Established(i)]
    /\ bully_net = {}
    /\ bully_last = BullyLast("off", 0, NoMsg, BullyBoot(0), {})
    /\ \E a \in AlivePhases :
          bully_clock = [i \in BullyMotes |->
                           IF i = 3 THEN BullyClock(COORDINATOR_TIMEOUT, a)
                           ELSE BullyClock(COORDINATOR_TIMEOUT, ALIVE_INTERVAL)]
    /\ RingIdle
    /\ PrasleIdle

BullyTimedNext ==
    \/ BullyTick
    \/ \E n \in BullyMotes : BullyElectionTimeout(n)
    \/ \E n \in BullyMotes : BullyCoordinatorTimeout(n)
    \/ \E n \in BullyMotes : BullyAliveTimeout(n)
    \/ \E p \in bully_net : BullyTimedReceive(p)
    \/ \E p \in bully_net : BullyAliveLose(p)
    \/ \E n \in BullyMotes : BullyCrash(n)

\* heartbeats, timeouts and at most MaxCrashes crashes, in real time
SpecBullyTimed == BullyTimedInit /\ [][BullyTimedNext]_vars

(***************************************************************************)
(* One mote and everything the radio can hand it: any datagram of the      *)
(* protocol from lower, higher, own and out-of-table sender IDs, an        *)
(* unknown type code, a truncated datagram, in any order and any number of *)
(* times, interleaved with its own timers.                                 *)
(***************************************************************************)
\* simMoteID of the mote under test
TestIds == {2, 12}
\* senders: a lower and a higher ID, the mote's own ID 2 (an echo), and 11,
\* which last_seen_sequence[MAX_NODES] has no slot for
SenderIds == {1, 2, 3, 11}
TargetIds == {0, 2, 12}
Truncated == [bully_msg_t(MSG_COORDINATOR, 3, 0, 1) EXCEPT !.len = BULLY_MSG_SIZE - 1]

\* the sequence number is read for ELECTION and for unknown type codes only,
\* the target for ELECTION and ANSWER only
Datagrams ==
    {bully_msg_t(MSG_ELECTION, f, g, q) : f \in SenderIds \ {2}, g \in TargetIds, q \in 0..MaxSeq}
    \cup {bully_msg_t(5, 1, 0, q) : q \in 0..MaxSeq}
    \cup {bully_msg_t(MSG_ANSWER, f, g, 1) : f \in {1, 3}, g \in TargetIds}
    \cup {bully_msg_t(t, f, 0, 1) : t \in {MSG_COORDINATOR, MSG_ALIVE}, f \in SenderIds}
    \cup {Truncated}

BullyHear(n, msg) ==
    /\ bully[n].pc # "dead"
    /\ BullyStep("recv", n, msg, handle_message(bully[n], msg), bully_net)

BullyMoteInit ==
    /\ \E id \in TestIds :
          bully = [i \in BullyMotes |-> IF i = 1 THEN BullyBoot(id)
                                        ELSE [BullyBoot(i) EXCEPT !.pc = "dead"]]
    /\ bully_net = {}
    /\ bully_last = BullyLast("init", 0, NoMsg, BullyBoot(0), {})
    /\ bully_clock = <<>>
    /\ RingIdle
    /\ PrasleIdle

BullyMoteNext ==
    \/ BullyStartup(1)
    \/ \E msg \in Datagrams : BullyHear(1, msg)
    \/ BullyTimerInDelay(1)
    \/ BullyElectionTimer(1)
    \/ BullyCoordinatorTimer(1)
    \/ BullyAliveTimer(1)

SpecBullyMote == BullyMoteInit /\ [][BullyMoteNext]_vars

(***************************************************************************)
(* Properties of the Bully node.                                           *)
(***************************************************************************)
Live == {n \in BullyMotes : bully[n].pc # "dead"}

RECURSIVE SetMax(_)
SetMax(S) == IF S = {} THEN 0
             ELSE LET x == CHOOSE y \in S : TRUE
                      m == SetMax(S \ {x})
                  IN IF x > m THEN x ELSE m

\* no election in progress on any live mote and nothing but heartbeats on the air
Quiescent ==
    /\ \A n \in Live : bully[n].pc = "run" /\ bully[n].state = STATE_NORMAL
    /\ \A p \in bully_net : p.m.type = MSG_ALIVE

\* the mote the last handler ran on
LastMote == bully[bully_last.node]
Heard(type) == bully_last.op = "recv" /\ bully_last.ok /\ bully_last.type = type

\* state, current_leader, election_sequence, election_response_received
Protocol(s) == <<s.state, s.current_leader, s.election_sequence, s.election_response_received>>

\* C1: a mote's current_leader is 0 or at least its own ID, whatever datagrams
\* and timer expiries it has seen.
C1_BullyRejection ==
    \A n \in BullyMotes :
        bully[n].current_leader = 0 \/ bully[n].current_leader >= bully[n].my_node_id

\* a COORDINATOR of a lower sender has just been rejected by a mote with a leader
C1_Witness ==
    /\ Heard(MSG_COORDINATOR)
    /\ bully_last.from < LastMote.my_node_id
    /\ LastMote.current_leader >= LastMote.my_node_id

C3_LeaderCrash ==
    <>(\A n \in {1, 2} : bully[n].current_leader = 2)

\* after the crash the coordinator_timer has cleared the dead leader on both
\* motes and the new election has ended with 2
C3_Witness ==
    /\ Live = {1, 2}
    /\ \A n \in Live : bully[n].current_leader = 2 /\ bully[n].election_sequence >= 2

\* C4: an ALIVE from a higher sender s is adopted when the mote has no leader,
\* waits for a coordinator or holds a lower leader: current_leader = s, state
\* NORMAL, coordinator_timer armed.
C4_AliveAdoption ==
    (/\ Heard(MSG_ALIVE)
     /\ bully_last.from > LastMote.my_node_id
     /\ \/ bully_last.leader = 0
        \/ bully_last.state = STATE_WAITING_COORDINATOR
        \/ bully_last.from > bully_last.leader)
    => /\ LastMote.current_leader = bully_last.from
       /\ LastMote.state = STATE_NORMAL
       /\ LastMote.coordinator_timer

\* mote 2, leader of its own side, has adopted 3 on an ALIVE from 3
C4_Witness ==
    /\ Heard(MSG_ALIVE)
    /\ bully_last.from = 3
    /\ LastMote.my_node_id = 2
    /\ bully_last.leader = 2
    /\ bully_last.state = STATE_NORMAL
    /\ LastMote.current_leader = 3

ElectionDatagrams == {m \in Datagrams : m.type = MSG_ELECTION /\ m.len = BULLY_MSG_SIZE}

\* delivering m again right after m sends nothing and changes nothing
Idempotent(s, m) ==
    LET once == handle_message(s, m)
    IN handle_message(once.node, m) = Res(once.node, {})

\* C5 as claimed: for every sender ID, a second delivery of an ELECTION is inert.
C5_Original ==
    \A n \in Live : \A m \in ElectionDatagrams : Idempotent(bully[n], m)

\* C5 as amended: for every sender ID in 1..MAX_NODES a second delivery of an
\* ELECTION is inert, and so is any delivery of a sequence number the filter
\* has already recorded for that sender.
C5_NoDuplicateProcessing ==
    \A n \in Live : \A m \in ElectionDatagrams :
        m.node_id \in 1..MAX_NODES =>
            /\ Idempotent(bully[n], m)
            /\ (bully[n].last_seen_sequence[m.node_id] >= m.sequence
                  => handle_message(bully[n], m) = Res(bully[n], {}))

\* an ELECTION of sender 1 has been answered and is now recorded in the filter
C5_Witness ==
    /\ Heard(MSG_ELECTION)
    /\ bully_last.from = 1
    /\ bully_last.out # {}
    /\ LastMote.last_seen_sequence[1] >= 1

\* C6 as claimed: a datagram of the wrong length or of an unknown type changes
\* nothing on the mote, the duplicate filter included, and sends nothing.
C6_MalformedDropped ==
    \A n \in Live : \A m \in Datagrams :
        (m.len # BULLY_MSG_SIZE
         \/ m.type \notin {MSG_ELECTION, MSG_ANSWER, MSG_COORDINATOR, MSG_ALIVE})
        => handle_message(bully[n], m) = Res(bully[n], {})

CoordinatorDatagrams == {m \in Datagrams : m.type = MSG_COORDINATOR /\ m.len = BULLY_MSG_SIZE}

\* C7 as claimed: a COORDINATOR of the leader the mote already holds leaves
\* its protocol state as it is, in every state.
C7_Original ==
    \A n \in Live : \A m \in CoordinatorDatagrams :
        m.node_id = bully[n].current_leader
        => Protocol(handle_message(bully[n], m).node) = Protocol(bully[n])

\* C7 as amended: from another mote, it leaves current_leader, election_sequence and
\* election_response_received as they are and sends nothing; state is left as
\* it is in NORMAL, and is set to NORMAL from ELECTION and WAITING_COORDINATOR.
C7_CoordinatorRepeat ==
    \A n \in Live : \A m \in CoordinatorDatagrams :
        (m.node_id = bully[n].current_leader /\ m.node_id # bully[n].my_node_id)
        => LET r == handle_message(bully[n], m)
           IN /\ r.out = {}
              /\ Protocol(r.node) = <<STATE_NORMAL, bully[n].current_leader,
                                      bully[n].election_sequence,
                                      bully[n].election_response_received>>

\* a mote in NORMAL that held 3 has heard COORDINATOR from 3 again
C7_Witness ==
    /\ Heard(MSG_COORDINATOR)
    /\ bully_last.from = 3
    /\ bully_last.leader = 3
    /\ bully_last.state = STATE_NORMAL
    /\ LastMote.current_leader = 3
    /\ LastMote.state = STATE_NORMAL

\* every operation the process can run on a mote in state s: the handler on
\* every datagram, the end of the start delay, the three timer branches
BullyOps(s) ==
    {handle_message(s, m) : m \in Datagrams}
    \cup {bully_startup(s), on_election_timer(s), on_coordinator_timer(s),
          on_alive_timer(s)}

\* C22: start_election in state ELECTION changes nothing and sends nothing;
\* in any other state it sets state = ELECTION, adds 1 to election_sequence,
\* clears election_response_received and broadcasts ELECTION with target 0
\* and the new sequence; and every operation that enters ELECTION or changes
\* election_sequence does exactly that.
C22_StartElection ==
    \A n \in Live :
        LET s == bully[n]
            r == start_election(s)
            e == bully_msg_t(MSG_ELECTION, s.my_node_id, 0, s.election_sequence + 1)
        IN /\ s.state = STATE_ELECTION => r = Res(s, {})
           /\ s.state # STATE_ELECTION =>
                 /\ r.node = [s EXCEPT !.state = STATE_ELECTION,
                                       !.election_sequence = s.election_sequence + 1,
                                       !.election_response_received = FALSE]
                 /\ r.out = {e}
           /\ \A o \in BullyOps(s) :
                 ((o.node.state = STATE_ELECTION /\ s.state # STATE_ELECTION)
                  \/ o.node.election_sequence # s.election_sequence)
                 => /\ s.state # STATE_ELECTION
                    /\ o.node.state = STATE_ELECTION
                    /\ o.node.election_sequence = s.election_sequence + 1
                    /\ ~o.node.election_response_received
                    /\ e \in o.out

\* a mote waiting for a coordinator has started its second election on the
\* expiry of coordinator_timer
C22_Witness ==
    /\ bully_last.op = "coordinator_timer"
    /\ bully_last.state = STATE_WAITING_COORDINATOR
    /\ LastMote.state = STATE_ELECTION
    /\ LastMote.election_sequence = 2
    /\ ~LastMote.election_response_received
    /\ bully_last.out =
          {bully_msg_t(MSG_ELECTION, LastMote.my_node_id, 0, 2)}

\* the filter lets the ELECTION m through on a mote in state s
FreshElection(s, m) ==
    /\ m \in ElectionDatagrams
    /\ m.node_id # s.my_node_id
    /\ m.node_id \in 1..MAX_NODES => s.last_seen_sequence[m.node_id] < m.sequence

\* C23: a non-duplicate ELECTION from s with target 0 or the mote's own ID
\* is answered with ANSWER targeted to s iff my_node_id > s, with a
\* COORDINATOR broadcast on top iff the mote is also the leader, and leaves
\* state, current_leader, election_sequence and election_response_received
\* as they are.
C23_ElectionReceived ==
    \A n \in Live : \A m \in Datagrams :
        LET s == bully[n]
            r == handle_message(s, m)
            higher == s.my_node_id > m.node_id
        IN (FreshElection(s, m) /\ m.target_id \in {0, s.my_node_id})
           => /\ r.out =
                   (IF higher
                    THEN {bully_msg_t(MSG_ANSWER, s.my_node_id, m.node_id, m.sequence)}
                    ELSE {})
                   \cup
                   (IF higher /\ s.current_leader = s.my_node_id
                    THEN {bully_msg_t(MSG_COORDINATOR, s.my_node_id, 0,
                                      s.election_sequence)}
                    ELSE {})
              /\ Protocol(r.node) = Protocol(s)

\* mote 2, leader of its side, has answered an ELECTION of mote 1 and
\* announced itself again
C23_Witness ==
    /\ Heard(MSG_ELECTION)
    /\ bully_last.from = 1
    /\ LastMote.my_node_id = 2
    /\ bully_last.leader = 2
    /\ LastMote.current_leader = 2
    /\ \E a, c \in bully_last.out :
          /\ a.type = MSG_ANSWER /\ a.target_id = 1
          /\ c.type = MSG_COORDINATOR /\ c.target_id = 0

ElectionTimerArmed ==
    {n \in Live : bully[n].pc = "run" /\ bully[n].election_timer}

\* the mote declares itself: current_leader = my_node_id, state NORMAL, a
\* COORDINATOR broadcast
Declares(s, r) ==
    /\ r.node.current_leader = s.my_node_id
    /\ r.node.state = STATE_NORMAL
    /\ r.out = {bully_msg_t(MSG_COORDINATOR, s.my_node_id, 0, s.election_sequence)}

C26_CoordinatorTimeout ==
    \A n \in Live :
        LET s == bully[n]
            r == on_coordinator_timer(s)
            first == s.state = STATE_WAITING_COORDINATOR \/ s.current_leader = 0
            second == ~first /\ s.current_leader # s.my_node_id
            base == IF second THEN [s EXCEPT !.current_leader = 0] ELSE s
        IN (s.pc = "run" /\ s.coordinator_timer) =>
           IF first \/ second
           THEN IF s.state = STATE_ELECTION
                THEN r = Res([base EXCEPT !.election_timer = TRUE,
                                          !.coordinator_timer = TRUE], {})
                ELSE /\ r.node = [base EXCEPT !.state = STATE_ELECTION,
                                              !.election_sequence = s.election_sequence + 1,
                                              !.election_response_received = FALSE,
                                              !.election_timer = TRUE,
                                              !.coordinator_timer = TRUE]
                     /\ r.out = {bully_msg_t(MSG_ELECTION, s.my_node_id, 0,
                                             s.election_sequence + 1)}
           ELSE r = Res([s EXCEPT !.coordinator_timer = TRUE], {})

\* mote 2 in NORMAL under leader 3 has cleared its leader and started an
\* election on the expiry of coordinator_timer
C26_Witness ==
    /\ bully_last.op = "coordinator_timer"
    /\ bully_last.state = STATE_NORMAL
    /\ bully_last.leader = 3
    /\ LastMote.my_node_id = 2
    /\ LastMote.current_leader = 0
    /\ LastMote.state = STATE_ELECTION
    /\ LastMote.election_timer /\ LastMote.coordinator_timer

AnswerDatagrams == {m \in Datagrams : m.type = MSG_ANSWER /\ m.len = BULLY_MSG_SIZE}

\* C27: an ANSWER with target_id = my_node_id heard in ELECTION sets
\* election_response_received, moves the mote to WAITING_COORDINATOR and arms
\* coordinator_timer; an ANSWER with another target, or heard in NORMAL or
\* WAITING_COORDINATOR, changes nothing and sends nothing.
C27_AnswerReceived ==
    \A n \in Live : \A m \in AnswerDatagrams :
        LET s == bully[n]
            r == handle_message(s, m)
        IN IF m.target_id = s.my_node_id /\ s.state = STATE_ELECTION
           THEN r = Res([s EXCEPT !.election_response_received = TRUE,
                                  !.state = STATE_WAITING_COORDINATOR,
                                  !.coordinator_timer = TRUE], {})
           ELSE r = Res(s, {})

\* mote 2 in ELECTION has heard the ANSWER of mote 3 and waits for the
\* coordinator
C27_Witness ==
    /\ Heard(MSG_ANSWER)
    /\ bully_last.from = 3
    /\ bully_last.state = STATE_ELECTION
    /\ LastMote.my_node_id = 2
    /\ LastMote.state = STATE_WAITING_COORDINATOR
    /\ LastMote.election_response_received
    /\ LastMote.coordinator_timer

\* datagrams of the right length from another mote
Foreign(s) ==
    {m \in Datagrams : m.len = BULLY_MSG_SIZE /\ m.node_id # s.my_node_id}

\* what the handler does with m on a mote whose filter has recorded nothing,
\* the filter of s put back
Unfiltered(s, m) ==
    LET z == handle_message(
                 [s EXCEPT !.last_seen_sequence = [i \in 1..MAX_NODES |-> 0]], m)
    IN Res([z.node EXCEPT !.last_seen_sequence = s.last_seen_sequence], z.out)

\* C28: of the four message types, the duplicate filter is consulted and
\* updated for ELECTION only: an ELECTION whose sequence is recorded already
\* is dropped and a new one is recorded, while ANSWER, COORDINATOR and ALIVE
\* are processed as if there were no filter, whatever last_seen_sequence
\* holds for their sender, and leave last_seen_sequence as it is.
C28_FilterElectionOnly ==
    \A n \in Live : \A m \in Foreign(bully[n]) :
        LET s == bully[n]
            r == handle_message(s, m)
        IN /\ m.type \in {MSG_ANSWER, MSG_COORDINATOR, MSG_ALIVE}
                => /\ r = Unfiltered(s, m)
                   /\ r.node.last_seen_sequence = s.last_seen_sequence
           /\ (m.type = MSG_ELECTION /\ m.node_id \in 1..MAX_NODES)
                => IF s.last_seen_sequence[m.node_id] >= m.sequence
                   THEN r = Res(s, {})
                   ELSE r.node.last_seen_sequence =
                           [s.last_seen_sequence EXCEPT ![m.node_id] = m.sequence]

\* a mote without a leader whose filter holds sequence 2 for mote 3 has
\* adopted mote 3 on an ALIVE (every ALIVE of Datagrams carries sequence 1)
C28_Witness ==
    /\ Heard(MSG_ALIVE)
    /\ bully_last.from = 3
    /\ LastMote.last_seen_sequence[3] = 2
    /\ bully_last.leader = 0
    /\ LastMote.current_leader = 3

\* C29: while a coordinator L is alive and sends ALIVE every ALIVE_INTERVAL,
\* a follower that holds current_leader = L neither clears current_leader
\* nor starts an election, although the radio loses single ALIVE datagrams.
C29_NoFalsePositive ==
    [][\A n \in BullyMotes : \A L \in BullyMotes \ {n} :
          (/\ bully[n].pc = "run" /\ bully[n].current_leader = L
           /\ bully'[L].pc = "run" /\ bully[L].current_leader = L)
          => /\ bully'[n].current_leader = L
             /\ bully'[n].election_sequence = bully[n].election_sequence
      ]_vars

\* a follower of the live leader 3 has missed one ALIVE and the next one is
\* due: coordinator_timer has run for two heartbeat intervals
C29_Witness ==
    /\ bully[3].pc = "run" /\ bully[3].current_leader = 3
    /\ bully_clock[3].alive_timer = 0
    /\ \E n \in {1, 2} :
          /\ bully[n].pc = "run" /\ bully[n].current_leader = 3
          /\ bully_clock[n].lost
          /\ bully_clock[n].coordinator_timer
                = COORDINATOR_TIMEOUT - 2 * ALIVE_INTERVAL

\* C35: a mote in ELECTION has election_response_received clear and a mote
\* in WAITING_COORDINATOR has it set; so the expiry of election_timer makes
\* a mote declare itself only if the mote is in ELECTION.
C35_FlagFollowsState ==
    \A n \in Live :
        LET s == bully[n]
            r == on_election_timer(s)
        IN /\ s.state = STATE_ELECTION => ~s.election_response_received
           /\ s.state = STATE_WAITING_COORDINATOR => s.election_response_received
           /\ (r.out # {} \/ r.node.current_leader # s.current_leader
                          \/ r.node.state # s.state)
              => /\ s.state = STATE_ELECTION
                 /\ Declares(s, r)

\* election_timer has expired on a mote that was in WAITING_COORDINATOR with
\* the flag set by an ANSWER: it has stayed there and has sent nothing
C35_Witness ==
    /\ bully_last.op = "election_timer"
    /\ bully_last.state = STATE_WAITING_COORDINATOR
    /\ bully_last.out = {}
    /\ LastMote.state = STATE_WAITING_COORDINATOR
    /\ LastMote.election_response_received

\* a mote in ELECTION has election_timer armed and its expiry takes the mote
\* out of ELECTION; a mote in WAITING_COORDINATOR has coordinator_timer
\* armed and its expiry takes the mote out of WAITING_COORDINATOR
TimeoutArmed(n) ==
    LET s == bully[n]
    IN /\ s.state = STATE_ELECTION
          => /\ s.election_timer
             /\ on_election_timer(s).node.state = STATE_NORMAL
       /\ s.state = STATE_WAITING_COORDINATOR
          => /\ s.coordinator_timer
             /\ on_coordinator_timer(s).node.state = STATE_ELECTION
             /\ on_coordinator_timer(s).node.election_timer

\* C36: in ELECTION election_timer is armed and in WAITING_COORDINATOR
\* coordinator_timer is armed; where armed timers expire and datagrams are
\* delivered, a mote in ELECTION leaves ELECTION and a mote in
\* WAITING_COORDINATOR leaves WAITING_COORDINATOR.
C36_NoStateForever ==
    /\ [](\A n \in Live : TimeoutArmed(n))
    /\ \A n \in BullyMotes :
          /\ (bully[n].state = STATE_ELECTION)
                ~> (bully[n].state # STATE_ELECTION)
          /\ (bully[n].state = STATE_WAITING_COORDINATOR)
                ~> (bully[n].state # STATE_WAITING_COORDINATOR)

\* after the crash of mote 3, mote 1 has been answered by mote 2 and waits
\* for the announcement with coordinator_timer armed, while mote 2 is in
\* its own election with election_timer armed
C36_Witness ==
    /\ bully[1].state = STATE_WAITING_COORDINATOR
    /\ bully[1].coordinator_timer
    /\ bully[2].state = STATE_ELECTION
    /\ bully[2].election_timer
    /\ bully[3].pc = "dead"

\* C37 as claimed: the ELECTION of the round a mote has just started, on its
\* way to a mote that recorded the earlier rounds of the sender, is not
\* taken for a duplicate there, whatever the value of election_sequence.
C37_NewRoundAccepted ==
    \A p \in bully_net :
        (/\ p.m.type = MSG_ELECTION
         /\ p.m.node_id \in 1..MAX_NODES
         /\ p.m.sequence = bully[p.m.node_id].election_sequence)
        => ~is_duplicate_message(bully[p.to].last_seen_sequence,
                                 p.m.node_id, p.m.sequence).dup

(***************************************************************************)
(*                            RING  (ring-node.c)                          *)
(***************************************************************************)
RING_SIZE == 6

RING_MSG_ELECTION == 1
RING_MSG_COORDINATOR == 2
RING_MSG_ALIVE == 3

\* the motes of the ring; simMoteID of mote i is i
RingMotes == 1..RING_SIZE

ring_msg_t(type, initiator_id, candidate_id, sequence, target_node_id) ==
    [type |-> type, initiator_id |-> initiator_id,
     candidate_id |-> candidate_id, sequence |-> sequence,
     target_node_id |-> target_node_id]

get_next_node_nowrap(node_id) == node_id + 1

get_next_node(node_id) ==
    IF node_id >= RING_SIZE THEN 1 ELSE node_id + 1

\* module-scope state of a mote that waits for random_delay_timer: the
\* receive callback is registered, my_node_id and next_node_id are set.
\* coordinator_timer and alive_timer are set on entering the main loop and
\* reset on every expiry, so they are armed exactly while pc = "run";
\* election_timer is armed where the field says so.
RingBoot(id) ==
    [pc |-> "delay",
     my_node_id |-> IF id = 0 THEN 1 ELSE id,
     state |-> STATE_NORMAL,
     current_leader |-> 0,
     election_sequence |-> 0,
     next_node_id |-> get_next_node(IF id = 0 THEN 1 ELSE id),
     election_in_progress |-> FALSE,
     election_timer |-> FALSE]

send_to_next_node(s, msg_type, initiator, candidate, sequence) ==
    {ring_msg_t(msg_type, initiator, candidate, sequence, s.next_node_id)}

ring_start_election(s) ==
    IF s.election_in_progress
    THEN Res(s, {})
    ELSE LET t == [s EXCEPT !.state = STATE_ELECTION,
                            !.election_sequence = (@ + 1) % U16,
                            !.election_in_progress = TRUE]
         IN Res(t, send_to_next_node(t, RING_MSG_ELECTION, t.my_node_id,
                                     t.my_node_id, t.election_sequence))

ring_on_election_keep_candidate(s, msg) ==
    IF msg.initiator_id = s.my_node_id
    THEN LET t == [s EXCEPT !.current_leader = msg.candidate_id,
                            !.state = STATE_NORMAL,
                            !.election_in_progress = FALSE]
         IN Res(t, send_to_next_node(t, RING_MSG_COORDINATOR, t.my_node_id,
                                     t.current_leader, msg.sequence))
    ELSE LET t == [s EXCEPT !.state = STATE_ELECTION,
                            !.election_in_progress = TRUE]
         IN Res(t, send_to_next_node(t, RING_MSG_ELECTION, msg.initiator_id,
                                     msg.candidate_id, msg.sequence))

ring_on_election(s, msg) ==
    IF msg.initiator_id = s.my_node_id
    THEN LET t == [s EXCEPT !.current_leader = msg.candidate_id,
                            !.state = STATE_NORMAL,
                            !.election_in_progress = FALSE]
         IN Res(t, send_to_next_node(t, RING_MSG_COORDINATOR, t.my_node_id,
                                     t.current_leader, msg.sequence))
    ELSE LET new_candidate == IF s.my_node_id > msg.candidate_id
                              THEN s.my_node_id ELSE msg.candidate_id
             t == [s EXCEPT !.state = STATE_ELECTION,
                            !.election_in_progress = TRUE]
         IN Res(t, send_to_next_node(t, RING_MSG_ELECTION, msg.initiator_id,
                                     new_candidate, msg.sequence))

ring_on_coordinator_no_accept(s, msg) ==
    IF msg.initiator_id = s.my_node_id /\ s.current_leader = s.my_node_id
    THEN Res(s, {})
    ELSE Res(s, send_to_next_node(s, RING_MSG_COORDINATOR, msg.initiator_id,
                                  msg.candidate_id, msg.sequence))

\* mutant: accepting a COORDINATOR leaves election_in_progress as it is
ring_on_coordinator_keep_flag(s, msg) ==
    IF msg.initiator_id = s.my_node_id /\ s.current_leader = s.my_node_id
    THEN Res(s, {})
    ELSE LET t == [s EXCEPT !.current_leader = msg.candidate_id,
                            !.state = STATE_NORMAL]
         IN Res(t, send_to_next_node(t, RING_MSG_COORDINATOR, msg.initiator_id,
                                     msg.candidate_id, msg.sequence))

ring_on_coordinator(s, msg) ==
    IF msg.initiator_id = s.my_node_id /\ s.current_leader = s.my_node_id
    THEN Res(s, {})
    ELSE LET t == [s EXCEPT !.current_leader = msg.candidate_id,
                            !.state = STATE_NORMAL,
                            !.election_in_progress = FALSE]
         IN Res(t, send_to_next_node(t, RING_MSG_COORDINATOR, msg.initiator_id,
                                     msg.candidate_id, msg.sequence))

\* mutant: a heartbeat is passed on by whoever is handed it
ring_on_alive_forward_all(s, msg) ==
    Res(s, send_to_next_node(s, RING_MSG_ALIVE, msg.initiator_id,
                             msg.candidate_id, msg.sequence))

ring_on_alive(s, msg) ==
    IF msg.initiator_id = s.my_node_id /\ s.current_leader = s.my_node_id
    THEN Res(s, {})
    ELSE IF msg.initiator_id = s.current_leader
    THEN Res(s, send_to_next_node(s, RING_MSG_ALIVE, msg.initiator_id,
                                  msg.candidate_id, msg.sequence))
    ELSE Res(s, {})

\* mutant: the handler does not look at target_node_id
ring_handle_message_no_filter(s, msg) ==
    IF msg.type = RING_MSG_ELECTION THEN ring_on_election(s, msg)
    ELSE IF msg.type = RING_MSG_COORDINATOR THEN ring_on_coordinator(s, msg)
    ELSE IF msg.type = RING_MSG_ALIVE THEN ring_on_alive(s, msg)
    ELSE Res(s, {})

\* every datagram of the ring is a whole ring_msg_t, so the length test of
\* the handler passes; the target filter and the switch follow
ring_handle_message(s, msg) ==
    IF msg.target_node_id # s.my_node_id THEN Res(s, {})
    ELSE IF msg.type = RING_MSG_ELECTION THEN ring_on_election(s, msg)
    ELSE IF msg.type = RING_MSG_COORDINATOR THEN ring_on_coordinator(s, msg)
    ELSE IF msg.type = RING_MSG_ALIVE THEN ring_on_alive(s, msg)
    ELSE Res(s, {})

\* the random delay is over: the highest ID starts the first election
ring_startup(s) ==
    LET r == IF s.my_node_id = RING_SIZE
             THEN LET e == ring_start_election(s)
                  IN Res([e.node EXCEPT !.election_timer = TRUE], e.out)
             ELSE Res(s, {})
    IN Res([r.node EXCEPT !.pc = "run"], r.out)

ring_on_election_timer(s) ==
    IF s.state = STATE_ELECTION /\ s.election_in_progress
    THEN LET e == ring_start_election([s EXCEPT !.election_in_progress = FALSE])
         IN Res([e.node EXCEPT !.election_timer = TRUE], e.out)
    ELSE Res([s EXCEPT !.election_timer = FALSE], {})

ring_on_coordinator_timer(s) ==
    IF s.current_leader = 0 /\ ~s.election_in_progress
    THEN LET e == ring_start_election(s)
         IN Res([e.node EXCEPT !.election_timer = TRUE], e.out)
    ELSE Res(s, {})

ring_on_alive_timer(s) ==
    IF s.current_leader = s.my_node_id
    THEN Res(s, send_to_next_node(s, RING_MSG_ALIVE, s.my_node_id,
                                  s.my_node_id, s.election_sequence))
    ELSE Res(s, {})

(***************************************************************************)
(* The Ring system: six motes on one broadcast medium.                     *)
(* ring[i]    the module-scope state of mote i                             *)
(* ring_net   the datagrams on the air; every mote hears every datagram    *)
(*            and all but the addressed one ignore it                      *)
(* ring_last  not written by the system specifications                     *)
(* ring_lost  the number of datagrams the radio has lost                   *)
(***************************************************************************)
RECURSIVE RingElections(_, _)
\* elections started so far by the motes of S
RingElections(r, S) ==
    IF S = {} THEN 0
    ELSE LET n == CHOOSE x \in S : TRUE
         IN r[n].election_sequence + RingElections(r, S \ {n})

\* mote n ran a handler of its process with result r
RingStep(n, r) ==
    /\ RingElections([ring EXCEPT ![n] = r.node], RingMotes) <= MaxRingElections
    /\ r.out = {} \/ Cardinality(ring_net) <= MaxInFlight
    /\ r.out \cap ring_net = {}
    /\ ring' = [ring EXCEPT ![n] = r.node]
    /\ ring_net' = ring_net \cup r.out
    /\ UNCHANGED <<ring_last, ring_lost, bully_vars, prasle_vars>>

RingStartup(n) ==
    /\ ring[n].pc = "delay"
    /\ RingStep(n, ring_startup(ring[n]))

\* input_callback on every mote that hears datagram m
RingReceive(m) ==
    /\ m \in ring_net
    /\ LET rs == [n \in RingMotes |-> ring_handle_message(ring[n], m)]
           out == UNION {rs[n].out : n \in RingMotes}
       IN /\ out \cap (ring_net \ {m}) = {}
          /\ ring' = [n \in RingMotes |-> rs[n].node]
          /\ ring_net' = (ring_net \ {m}) \cup out
    /\ UNCHANGED <<ring_last, ring_lost, bully_vars, prasle_vars>>

RingElectionTimer(n) ==
    /\ ring[n].pc = "run"
    /\ ring[n].election_timer
    /\ RingStep(n, ring_on_election_timer(ring[n]))

RingCoordinatorTimer(n) ==
    /\ ring[n].pc = "run"
    /\ ring_on_coordinator_timer(ring[n]).node # ring[n]
    /\ RingStep(n, ring_on_coordinator_timer(ring[n]))

RingAliveTimer(n) ==
    /\ ring[n].pc = "run"
    /\ ring_on_alive_timer(ring[n]).out # {}
    /\ RingStep(n, ring_on_alive_timer(ring[n]))

BullyIdle ==
    /\ bully = <<>>
    /\ bully_net = {}
    /\ bully_last = 0
    /\ bully_clock = <<>>

\* motes 1..5 have left their random delay (which, for them, only sets
\* coordinator_timer and alive_timer); mote 6 still waits for its own
RingInit ==
    /\ ring = [i \in RingMotes |->
                 IF i = RING_SIZE THEN RingBoot(i)
                 ELSE ring_startup(RingBoot(i)).node]
    /\ ring_net = {}
    /\ ring_last = 0
    /\ ring_lost = 0
    /\ BullyIdle
    /\ PrasleIdle

RingNext ==
    \/ \E n \in RingMotes : RingStartup(n)
    \/ \E m \in ring_net : RingReceive(m)
    \/ \E n \in RingMotes : RingElectionTimer(n)
    \/ \E n \in RingMotes : RingCoordinatorTimer(n)
    \/ \E n \in RingMotes : RingAliveTimer(n)

SpecRing == RingInit /\ [][RingNext]_vars

\* the election alone: heartbeats (which change no mote's state) left out
RingElectionNext ==
    \/ \E n \in RingMotes : RingStartup(n)
    \/ \E m \in ring_net : RingReceive(m)
    \/ \E n \in RingMotes : RingElectionTimer(n)
    \/ \E n \in RingMotes : RingCoordinatorTimer(n)

\* no datagram is lost: a mote that is addressed by ELECTION tokens on the
\* air hears one of them
RingHearElection(n) ==
    \E m \in ring_net : /\ m.type = RING_MSG_ELECTION
                        /\ m.target_node_id = n
                        /\ RingReceive(m)

RingFairness == \A n \in RingMotes : WF_vars(RingHearElection(n))

SpecRingFair == RingInit /\ [][RingElectionNext]_vars /\ RingFairness

(***************************************************************************)
(* Properties of the Ring node.                                            *)
(***************************************************************************)
\* the largest ID among the motes a token of initiator i has passed when it
\* is addressed to mote t
RECURSIVE PathMax(_, _)
PathMax(i, t) ==
    IF get_next_node(i) = t THEN i
    ELSE LET p == CHOOSE x \in RingMotes : get_next_node(x) = t
         IN IF p > PathMax(i, p) THEN p ELSE PathMax(i, p)

\* the ELECTION token q of mote i is back: mote i has answered it with the
\* COORDINATOR token of the same sequence
ElectionReturned(i, q) ==
    \E m \in ring_net : /\ m.type = RING_MSG_COORDINATOR
                        /\ m.initiator_id = i
                        /\ m.sequence = q
                        /\ m.target_node_id = get_next_node(i)

\* an ELECTION token that leaves the air has been heard by the mote it was
\* addressed to, which passed it on (with the larger candidate) or, being
\* its initiator, answered it with COORDINATOR
ElectionHop ==
    \A m \in ring_net :
        (m.type = RING_MSG_ELECTION /\ m \notin ring_net') =>
            IF m.target_node_id = m.initiator_id
            THEN ring_msg_t(RING_MSG_COORDINATOR, m.initiator_id,
                            m.candidate_id, m.sequence,
                            get_next_node(m.initiator_id)) \in ring_net'
            ELSE ring_msg_t(RING_MSG_ELECTION, m.initiator_id,
                            IF m.target_node_id > m.candidate_id
                            THEN m.target_node_id ELSE m.candidate_id,
                            m.sequence,
                            get_next_node(m.target_node_id)) \in ring_net'

NoElectionOnAir == \A m \in ring_net : m.type # RING_MSG_ELECTION

\* C8: with every mote alive and no datagram lost, no ELECTION token stops
\* mid-ring (each hop passes it to the successor until its initiator takes
\* it back and answers with COORDINATOR) and none is forwarded forever
\* (eventually every ELECTION token is off the air for good).
C8_ElectionReturns == [][ElectionHop]_vars /\ <>[]NoElectionOnAir

\* an ELECTION token of a mote other than the highest has just returned
C8_Witness ==
    \E i \in RingMotes \ {RING_SIZE} : \E q \in 1..MaxRingElections :
        /\ ElectionReturned(i, q)
        /\ ring[i].current_leader = RING_SIZE

\* neither an ELECTION nor a COORDINATOR token is on the air
ElectionQuiet ==
    \A m \in ring_net : m.type \notin {RING_MSG_ELECTION, RING_MSG_COORDINATOR}

\* the COORDINATOR tokens of initiator i that are addressed to i again
CoordinatorBack(i) ==
    {m \in ring_net : /\ m.type = RING_MSG_COORDINATOR
                      /\ m.initiator_id = i
                      /\ m.target_node_id = i}

\* C9: an ELECTION token carries the largest ID of the motes it has passed,
\* so it returns with candidate 6; when the COORDINATOR token of mote 6 is
\* back at mote 6 it names 6, every mote holds leader 6 and mote 6 does not
\* pass it on; with no other election traffic every mote is then NORMAL,
\* and so it is once the election of mote 6 is over and the ring is quiet.
C9_HighestElected ==
    /\ \A m \in ring_net :
          m.type = RING_MSG_ELECTION =>
              m.candidate_id = PathMax(m.initiator_id, m.target_node_id)
    /\ \A m \in CoordinatorBack(RING_SIZE) :
          /\ m.candidate_id = RING_SIZE
          /\ \A n \in RingMotes : ring[n].current_leader = RING_SIZE
          /\ ring_handle_message(ring[RING_SIZE], m).out = {}
          /\ (\A x \in ring_net \ {m} :
                  x.type \notin {RING_MSG_ELECTION, RING_MSG_COORDINATOR})
              => \A n \in RingMotes : ring[n].state = STATE_NORMAL
    /\ (ElectionQuiet /\ ring[RING_SIZE].election_sequence > 0) =>
          \A n \in RingMotes : /\ ring[n].current_leader = RING_SIZE
                               /\ ring[n].state = STATE_NORMAL

\* the election of mote 6 is over: its COORDINATOR token went round and
\* was taken off the ring
C9_Witness ==
    /\ ring_net = {}
    /\ ring[RING_SIZE].election_sequence = 1
    /\ \A n \in RingMotes : /\ ring[n].current_leader = RING_SIZE
                             /\ ring[n].state = STATE_NORMAL
                             /\ ring[n].election_sequence =
                                    (IF n = RING_SIZE THEN 1 ELSE 0)

\* C10: a COORDINATOR token that is back at the mote that started it is
\* dropped there, for every initiator.
C10_CoordinatorOnce ==
    \A i \in RingMotes : \A m \in CoordinatorBack(i) :
        ring_handle_message(ring[i], m).out = {}

\* the ELECTION tokens that are addressed to their initiator i again
ElectionBack(i) ==
    {m \in ring_net : /\ m.type = RING_MSG_ELECTION
                      /\ m.initiator_id = i
                      /\ m.target_node_id = i}

RingOps(s) ==
    {ring_handle_message(s, m) : m \in ring_net}
    \cup {ring_startup(s), ring_on_election_timer(s),
          ring_on_coordinator_timer(s), ring_on_alive_timer(s)}

\* C30: a datagram is processed by one mote, the one whose ID is its
\* target_node_id: when it is heard, every other mote keeps its state and
\* sends nothing; and whatever a mote sends is addressed to next_node_id,
\* which is the successor of the mote on the ring and never changes.
C30_OneProcessor ==
    [][/\ \A n \in RingMotes :
             /\ ring[n].next_node_id = get_next_node(ring[n].my_node_id)
             /\ ring'[n].next_node_id = ring[n].next_node_id
             /\ \A r \in RingOps(ring[n]) : \A x \in r.out :
                   x.target_node_id = ring[n].next_node_id
             /\ \A m \in ring_net :
                   m.target_node_id # ring[n].my_node_id
                   => ring_handle_message(ring[n], m) = Res(ring[n], {})
       /\ \A m \in ring_net \ ring_net' :
             /\ Cardinality({n \in RingMotes :
                               ring[n].my_node_id = m.target_node_id}) = 1
             /\ \A n \in RingMotes :
                   n # m.target_node_id => ring'[n] = ring[n]
             /\ \A x \in ring_net' \ ring_net :
                   x.target_node_id = get_next_node(m.target_node_id)
      ]_vars

\* the ELECTION token of mote 6 has been processed by mote 1 and then by
\* mote 2, which has passed it on to mote 3; motes 3, 4 and 5, which heard
\* both datagrams, are as they were
C30_Witness ==
    /\ \E m \in ring_net :
          /\ m.type = RING_MSG_ELECTION
          /\ m.initiator_id = RING_SIZE
          /\ m.target_node_id = 3
    /\ \A n \in {1, 2} : ring[n].state = STATE_ELECTION
    /\ \A n \in {3, 4, 5} : ring[n] = ring_startup(RingBoot(n)).node

\* C31: a mote that is handed an ELECTION token of another initiator passes
\* it on to next_node_id with the same initiator and sequence and with the
\* higher of the candidate and its own ID as candidate, and is in ELECTION
\* afterwards; current_leader is left as it is.
C31_ElectionForward ==
    \A n \in RingMotes : \A m \in ring_net :
        (/\ m.type = RING_MSG_ELECTION
         /\ m.target_node_id = n
         /\ m.initiator_id # n)
        => LET r == ring_handle_message(ring[n], m)
               c == IF n > m.candidate_id THEN n ELSE m.candidate_id
           IN /\ r.out = {ring_msg_t(RING_MSG_ELECTION, m.initiator_id, c,
                                     m.sequence, ring[n].next_node_id)}
              /\ r.node.state = STATE_ELECTION
              /\ r.node.current_leader = ring[n].current_leader

\* mote 4, which held leader 6, has raised the candidate of the token of
\* mote 3 to 4 and passed it on to mote 5
C31_Witness ==
    /\ \E m \in ring_net :
          /\ m.type = RING_MSG_ELECTION
          /\ m.initiator_id = 3
          /\ m.candidate_id = 4
          /\ m.target_node_id = 5
    /\ ring[4].state = STATE_ELECTION
    /\ ring[4].current_leader = RING_SIZE

\* C32: an ALIVE token is put on the ring only by the alive_timer of a mote
\* whose current_leader is its own ID; a mote other than the initiator
\* passes it on, unchanged, to its successor, and only if the initiator is
\* its current_leader; the initiator, which still holds itself as leader,
\* sends nothing when the token comes back.  A token therefore ends within
\* one lap.
C32_AliveOneLap ==
    [][/\ \A x \in ring_net' \ ring_net :
             x.type = RING_MSG_ALIVE
             => \/ /\ ring_net \subseteq ring_net'
                   /\ \E n \in RingMotes :
                         /\ ring[n].current_leader = n
                         /\ x = ring_msg_t(RING_MSG_ALIVE, n, n,
                                           ring[n].election_sequence,
                                           get_next_node(n))
                \/ \E m \in ring_net \ ring_net' :
                      /\ m.type = RING_MSG_ALIVE
                      /\ m.target_node_id # m.initiator_id
                      /\ m.initiator_id = ring[m.target_node_id].current_leader
                      /\ x = [m EXCEPT !.target_node_id =
                                          get_next_node(m.target_node_id)]
       /\ \A m \in ring_net :
             m.type = RING_MSG_ALIVE
             => /\ ring[m.initiator_id].current_leader = m.initiator_id
                /\ LET n == m.target_node_id
                       r == ring_handle_message(ring[n], m)
                   IN /\ r.node = ring[n]
                      /\ n = m.initiator_id => r.out = {}
                      /\ m.initiator_id # ring[n].current_leader => r.out = {}
      ]_vars

\* the heartbeat of mote 6 has been passed on by the five other motes and is
\* on its way back to mote 6
C32_Witness ==
    /\ ring[RING_SIZE].current_leader = RING_SIZE
    /\ \E m \in ring_net :
          /\ m.type = RING_MSG_ALIVE
          /\ m.initiator_id = RING_SIZE
          /\ m.target_node_id = RING_SIZE

\* C38: on every mote of the ring election_in_progress is true exactly
\* when state is ELECTION, and no mote is ever in WAITING_COORDINATOR; no
\* operation of the process leads out of this.
C38_FlagIsElection ==
    \A n \in RingMotes :
        /\ ring[n].election_in_progress <=> (ring[n].state = STATE_ELECTION)
        /\ ring[n].state \in {STATE_NORMAL, STATE_ELECTION}
        /\ \A r \in RingOps(ring[n]) :
              /\ r.node.election_in_progress
                    <=> (r.node.state = STATE_ELECTION)
              /\ r.node.state # STATE_WAITING_COORDINATOR

\* the election of mote 6 is over on motes 6, 1 and 2, which are back in
\* NORMAL with the flag clear and leader 6, while mote 3, which started an
\* election of its own, is in ELECTION with the flag set
C38_Witness ==
    /\ \A n \in {RING_SIZE, 1, 2} :
          /\ ring[n].current_leader = RING_SIZE
          /\ ring[n].state = STATE_NORMAL
          /\ ~ring[n].election_in_progress
    /\ ring[3].state = STATE_ELECTION
    /\ ring[3].election_in_progress
    /\ ring[3].election_sequence = 1

(***************************************************************************)
(* The Ring on a radio that loses datagrams: a token on the air may vanish *)
(* before the mote it is addressed to hears it.  Timers expire, and tokens *)
(* that are not lost are heard.                                            *)
(***************************************************************************)
RingLose(m) ==
    /\ m \in ring_net
    /\ ring_lost < MaxLoss
    /\ ring_net' = ring_net \ {m}
    /\ ring_lost' = ring_lost + 1
    /\ UNCHANGED <<ring, ring_last, bully_vars, prasle_vars>>

RingLossNext ==
    \/ \E n \in RingMotes : RingStartup(n)
    \/ \E m \in ring_net : RingReceive(m)
    \/ \E n \in RingMotes : RingElectionTimer(n)
    \/ \E n \in RingMotes : RingCoordinatorTimer(n)
    \/ \E n \in RingMotes : RingAliveTimer(n)
    \/ \E m \in ring_net : RingLose(m)

\* the tokens that can be on the air: ELECTION with the largest ID passed so
\* far, COORDINATOR naming the highest mote, ALIVE of the highest mote
RingTokens ==
    {ring_msg_t(RING_MSG_ELECTION, i, PathMax(i, t), q, t) :
        i \in RingMotes, t \in RingMotes, q \in 1..MaxRingElections}
    \cup
    {ring_msg_t(RING_MSG_COORDINATOR, i, RING_SIZE, q, t) :
        i \in RingMotes, t \in RingMotes, q \in 1..MaxRingElections}
    \cup
    {ring_msg_t(RING_MSG_ALIVE, RING_SIZE, RING_SIZE, q, t) :
        t \in RingMotes, q \in 0..MaxRingElections}

\* a token that stays on the air is heard; an armed timer expires
RingLossFairness ==
    /\ \A m \in RingTokens : WF_vars(RingReceive(m))
    /\ \A n \in RingMotes : /\ WF_vars(RingStartup(n))
                            /\ WF_vars(RingElectionTimer(n))
                            /\ WF_vars(RingCoordinatorTimer(n))

SpecRingLoss == RingInit /\ [][RingLossNext]_vars /\ RingLossFairness

\* every mote NORMAL and all holding the same leader, which is not 0
RingAgreed ==
    \A n \in RingMotes : /\ ring[n].state = STATE_NORMAL
                         /\ ring[n].current_leader # 0
                         /\ ring[n].current_leader = ring[1].current_leader

\* C12: after the loss of a token in transit the timers re-initiate, and
\* eventually every mote is NORMAL again and all hold the same non-zero
\* leader.
C12_TokenLossRecovered == (ring_lost > 0) ~> RingAgreed

(***************************************************************************)
(*                          PRASLE  (prasle-node.c)                        *)
(***************************************************************************)
MAX_NEIGHBORS == 8
N_MAX == 20
K_ROUNDS == 10

TOPOLOGY_RING == 1
TOPOLOGY_LINE == 2
TOPOLOGY_MESH == 3
TOPOLOGY_CLIQUE == 4

NETWORK_TOPOLOGY == TOPOLOGY_RING
NETWORK_SIZE == 6

\* the motes of the network; simMoteID of mote i is i
PrasleMotes == 1..NETWORK_SIZE

prasle_msg_t(min_value, leader_id, sender_id) ==
    [min_value |-> min_value, leader_id |-> leader_id, sender_id |-> sender_id]

get_ranking_value(s) == s.my_node_id

\* the node_id column of neighbors[] after init_neighbors, in the order of
\* the writes; grid_size of the mesh is the 3 of the source
init_neighbors(topology, size, id) ==
    IF topology = TOPOLOGY_RING
    THEN <<(id % size) + 1, ((id - 2 + size) % size) + 1>>
    ELSE IF topology = TOPOLOGY_LINE
    THEN (IF id > 1 THEN <<id - 1>> ELSE <<>>) \o
         (IF id < size THEN <<id + 1>> ELSE <<>>)
    ELSE IF topology = TOPOLOGY_MESH
    THEN LET grid_size == 3
             row == (id - 1) \div grid_size
             col == (id - 1) % grid_size
         IN (IF row > 0 THEN <<(row - 1) * grid_size + col + 1>> ELSE <<>>) \o
            (IF row < grid_size - 1
             THEN <<(row + 1) * grid_size + col + 1>> ELSE <<>>) \o
            (IF col > 0 THEN <<row * grid_size + col>> ELSE <<>>) \o
            (IF col < grid_size - 1 THEN <<row * grid_size + col + 2>> ELSE <<>>)
    ELSE IF topology = TOPOLOGY_CLIQUE
    THEN LET RECURSIVE others(_)
             others(i) == IF i > size THEN <<>>
                          ELSE (IF i # id THEN <<i>> ELSE <<>>) \o others(i + 1)
         IN others(1)
    ELSE <<>>

is_better(m1, l1, m2, l2) == (m1 < m2) \/ ((m1 = m2) /\ (l1 < l2))

\* module-scope state of a mote that waits for its start delay, in a build
\* with K_ROUNDS = k.  The min_value and leader_id columns of neighbors[]
\* are written by the handler and read nowhere; they are left out.  done
\* counts the update steps the mote has executed.
PrasleBoot(id, k) ==
    LET me == IF id = 0 THEN 1 ELSE id
    IN [pc |-> "boot",
        my_node_id |-> me,
        round_counter |-> k + 1,
        neighbors |-> init_neighbors(NETWORK_TOPOLOGY, NETWORK_SIZE, me),
        mini |-> N_MAX + 1,
        temp_mini |-> me,
        leaderi |-> me,
        temp_leaderi |-> me,
        election_converged |-> FALSE,
        done |-> 0]

send_message_to_neighbors(s) ==
    {prasle_msg_t(s.mini, s.leaderi, s.my_node_id)}

\* every datagram of the network is a whole prasle_msg_t, so the length test
\* passes; the sender is not looked up for anything but the neighbor cache
prasle_handle_message_deaf(s, msg) == s

\* mutant: a datagram that arrives outside the receive window is discarded
prasle_handle_message_window_only(s, msg) ==
    IF s.pc = "recv"
       /\ is_better(msg.min_value, msg.leader_id, s.temp_mini, s.temp_leaderi)
    THEN [s EXCEPT !.temp_mini = msg.min_value, !.temp_leaderi = msg.leader_id]
    ELSE s

prasle_handle_message(s, msg) ==
    IF is_better(msg.min_value, msg.leader_id, s.temp_mini, s.temp_leaderi)
    THEN [s EXCEPT !.temp_mini = msg.min_value, !.temp_leaderi = msg.leader_id]
    ELSE s

\* check_convergence without the test on round_counter
check_convergence_any_round(s, k) ==
    IF ~s.election_converged
       /\ s.mini = s.temp_mini /\ s.leaderi = s.temp_leaderi
    THEN [s EXCEPT !.election_converged = TRUE]
    ELSE s

check_convergence(s, k) ==
    IF ~s.election_converged /\ s.round_counter > k
       /\ s.mini = s.temp_mini /\ s.leaderi = s.temp_leaderi
    THEN [s EXCEPT !.election_converged = TRUE]
    ELSE s

\* the top of the loop: a new round starts, the receive window opens
prasle_round_start(s) ==
    [s EXCEPT !.round_counter = @ - 1, !.pc = "recv"]

\* recv_timer has expired: update, disseminate, termination test
prasle_update_chatty(s, k) ==
    LET better == is_better(s.temp_mini, s.temp_leaderi, s.mini, s.leaderi)
        t1 == IF better
              THEN [s EXCEPT !.mini = s.temp_mini, !.leaderi = s.temp_leaderi]
              ELSE s
        out == send_message_to_neighbors(t1)
        t2 == IF t1.round_counter <= 0
              THEN [t1 EXCEPT !.election_converged = TRUE]
              ELSE check_convergence(t1, k)
    IN Res([t2 EXCEPT !.pc = "gap", !.done = @ + 1], out)

prasle_update_reset(s, k) ==
    LET better == is_better(s.temp_mini, s.temp_leaderi, s.mini, s.leaderi)
        t1 == IF better
              THEN [s EXCEPT !.mini = s.temp_mini, !.leaderi = s.temp_leaderi]
              ELSE s
        out == IF better THEN send_message_to_neighbors(t1) ELSE {}
        t2 == IF t1.round_counter <= 0
              THEN [t1 EXCEPT !.election_converged = TRUE,
                              !.mini = N_MAX + 1, !.round_counter = k + 1]
              ELSE check_convergence(t1, k)
    IN Res([t2 EXCEPT !.pc = "gap", !.done = @ + 1], out)

prasle_update(s, k) ==
    LET better == is_better(s.temp_mini, s.temp_leaderi, s.mini, s.leaderi)
        t1 == IF better
              THEN [s EXCEPT !.mini = s.temp_mini, !.leaderi = s.temp_leaderi]
              ELSE s
        out == IF better THEN send_message_to_neighbors(t1) ELSE {}
        t2 == IF t1.round_counter <= 0
              THEN [t1 EXCEPT !.election_converged = TRUE]
              ELSE check_convergence(t1, k)
    IN Res([t2 EXCEPT !.pc = "gap", !.done = @ + 1], out)

(***************************************************************************)
(* The PraSLE network: six motes whose radio neighbours are the motes of   *)
(* their neighbors[] table.                                                *)
(* prasle[i]    the module-scope state of mote i                           *)
(* prasle_net   broadcasts on the air, each with the round of the sender   *)
(*              in which it was sent; one transmission reaches all the     *)
(*              neighbours of the sender at once                           *)
(* prasle_k     K_ROUNDS of the build                                      *)
(* prasle_lost  the number of broadcasts the radio has lost                *)
(* The motes boot together; the start delay is in [1 s, 2 s) and a round   *)
(* lasts T + 1/4 s, so no mote completes round r + 1 before every mote has *)
(* completed round r, and a datagram is heard long before the receiver's   *)
(* update step of the round after the one it was sent in.  The start of a  *)
(* round touches round_counter alone and commutes with every step of the   *)
(* other motes, so it is taken as soon as the delay before it begins.      *)
(***************************************************************************)
\* K_ROUNDS as shipped, and K_ROUNDS set to the diameter of the 6-ring
PrasleKs == {NETWORK_SIZE \div 2, K_ROUNDS}

Neighbours(n) ==
    {prasle[n].neighbors[i] : i \in 1..Len(prasle[n].neighbors)}

PrasleCopies(n, out) ==
    {[m |-> msg, sent |-> prasle[n].done + 1] : msg \in out}

\* the start delay or the delay between two rounds is over
PrasleRoundStart(n) ==
    /\ prasle[n].pc \in {"boot", "gap"}
    /\ prasle' = [prasle EXCEPT ![n] = prasle_round_start(prasle[n])]
    /\ UNCHANGED <<prasle_net, prasle_k, prasle_lost, bully_vars, ring_vars>>

InWindow == \A j \in PrasleMotes : prasle[j].pc = "recv"

\* recv_timer of mote n expires
PrasleUpdate(n) ==
    /\ InWindow
    /\ prasle[n].done < MaxRounds
    /\ \A j \in PrasleMotes : prasle[j].done >= prasle[n].done
    /\ \A p \in prasle_net :
          n \in Neighbours(p.m.sender_id) => p.sent > prasle[n].done
    /\ LET r == prasle_update(prasle[n], prasle_k)
       IN /\ prasle' = [prasle EXCEPT ![n] = r.node]
          /\ prasle_net' = prasle_net \cup PrasleCopies(n, r.out)
    /\ UNCHANGED <<prasle_k, prasle_lost, bully_vars, ring_vars>>

\* input_callback on every mote in range of the sender
PrasleReceive(p) ==
    /\ p \in prasle_net
    /\ InWindow
    /\ prasle' = [n \in PrasleMotes |->
                    IF n \in Neighbours(p.m.sender_id)
                    THEN prasle_handle_message(prasle[n], p.m)
                    ELSE prasle[n]]
    /\ prasle_net' = prasle_net \ {p}
    /\ UNCHANGED <<prasle_k, prasle_lost, bully_vars, ring_vars>>

PrasleInit ==
    /\ prasle_k \in PrasleKs
    /\ prasle = [i \in PrasleMotes |-> PrasleBoot(i, prasle_k)]
    /\ prasle_net = {}
    /\ prasle_lost = 0
    /\ BullyIdle
    /\ RingIdle

PrasleNext ==
    \/ \E n \in PrasleMotes : PrasleRoundStart(n)
    \/ \E n \in PrasleMotes : PrasleUpdate(n)
    \/ \E p \in prasle_net : PrasleReceive(p)

SpecPrasle == PrasleInit /\ [][PrasleNext]_vars

(***************************************************************************)
(* Properties of the PraSLE node.                                          *)
(***************************************************************************)
\* the mote whose (rank, id) is the lexicographic minimum of the network
MinMote ==
    CHOOSE i \in PrasleMotes :
        \A j \in PrasleMotes :
            ~is_better(get_ranking_value(prasle[j]), j,
                       get_ranking_value(prasle[i]), i)

HoldsMin(n) ==
    /\ prasle[n].mini = get_ranking_value(prasle[MinMote])
    /\ prasle[n].leaderi = MinMote

AllHoldMin == \A n \in PrasleMotes : HoldsMin(n)

\* every mote has executed r rounds
AllDone(r) == \A n \in PrasleMotes : prasle[n].done >= r

\* the diameter of the ring of NETWORK_SIZE motes
Diameter == NETWORK_SIZE \div 2

\* C13 as claimed: when every mote has executed K rounds all hold the minimum.
C13_Original == AllDone(prasle_k) => AllHoldMin

\* C13 as amended: K rounds suffice when the diameter is below K; with the
\* diameter equal to K it takes K + 1 rounds.
C13_Convergence ==
    AllDone(IF Diameter < prasle_k THEN prasle_k ELSE prasle_k + 1) => AllHoldMin

\* K above the diameter: every mote has executed K rounds and holds (1, 1)
C13_Witness ==
    /\ Diameter < prasle_k
    /\ \A n \in PrasleMotes : prasle[n].done = prasle_k
    /\ AllHoldMin

\* C14: a mote that has completed its (K+1)-th round holds the minimum,
\* also in the build whose K is the diameter.
C14_Termination ==
    \A n \in PrasleMotes : prasle[n].done >= prasle_k + 1 => HoldsMin(n)

\* K is the diameter and the mote opposite the minimum adopted it, and
\* broadcast it, in round K + 1
C14_Witness ==
    /\ prasle_k = Diameter
    /\ \E n \in PrasleMotes :
          /\ prasle[n].done = prasle_k + 1
          /\ HoldsMin(n)
          /\ [m |-> prasle_msg_t(prasle[n].mini, prasle[n].leaderi, n),
              sent |-> prasle_k + 1] \in prasle_net

\* C15 as claimed: on the 6-ring with K = 10 every mote holds (1, 1) once
\* all have executed 3 rounds.
C15_Original ==
    (prasle_k = K_ROUNDS /\ AllDone(3)) => \A n \in PrasleMotes :
        prasle[n].mini = 1 /\ prasle[n].leaderi = 1

\* C15 as amended: the motes start with temp_mini = my_id and
\* mini = N_MAX + 1, and every mote holds (1, 1) once all have executed 4
\* rounds.
C15_SixRing ==
    prasle_k = K_ROUNDS =>
        /\ \A n \in PrasleMotes :
              prasle[n].pc = "boot" => /\ prasle[n].mini = N_MAX + 1
                                       /\ prasle[n].temp_mini = n
                                       /\ prasle[n].leaderi = n
        /\ (AllDone(4) => \A n \in PrasleMotes :
                             prasle[n].mini = 1 /\ prasle[n].leaderi = 1)

\* mote 4 has adopted (1, 1) in its 4th round, not before
C15_Witness ==
    /\ prasle_k = K_ROUNDS
    /\ AllDone(4)
    /\ [m |-> prasle_msg_t(1, 1, 4), sent |-> 4] \in prasle_net

\* C16: whenever (mini, leaderi) of a mote changes, the new pair is strictly
\* smaller in the lexicographic order than the pair it replaces.
C16_Monotone ==
    [][\A n \in PrasleMotes :
          <<prasle'[n].mini, prasle'[n].leaderi>> #
              <<prasle[n].mini, prasle[n].leaderi>>
          => is_better(prasle'[n].mini, prasle'[n].leaderi,
                       prasle[n].mini, prasle[n].leaderi)]_vars

\* a mote has replaced its own pair by the smaller pair of another mote
C16_Witness ==
    \E n \in PrasleMotes : /\ prasle[n].done >= 2
                           /\ prasle[n].mini < n
                           /\ prasle[n].leaderi < n

\* C19 as claimed: between two rounds, and before the first,
\* (mini, leaderi) is not above (temp_mini, temp_leaderi).
C19_Original ==
    \A n \in PrasleMotes :
        prasle[n].pc \in {"boot", "gap"} =>
            ~is_better(prasle[n].temp_mini, prasle[n].temp_leaderi,
                       prasle[n].mini, prasle[n].leaderi)

\* C19 as amended: at the end of every update step of a mote
\* (mini, leaderi) is not above (temp_mini, temp_leaderi).
C19_RoundBoundary ==
    [][\A n \in PrasleMotes :
          prasle'[n].done = prasle[n].done + 1 =>
              ~is_better(prasle'[n].temp_mini, prasle'[n].temp_leaderi,
                         prasle'[n].mini, prasle'[n].leaderi)]_vars

\* a mote is at the end of its first update step, which replaced the
\* sentinel N_MAX + 1 by its own rank
C19_Witness ==
    \E n \in PrasleMotes : /\ prasle[n].pc = "gap"
                           /\ prasle[n].done = 1
                           /\ prasle[n].mini = prasle[n].temp_mini
                           /\ prasle[n].leaderi = prasle[n].temp_leaderi

\* C20: once every mote holds the minimum of the network, rounds go on but
\* no mote changes (mini, leaderi) and no mote broadcasts.
C20_Stable ==
    [][AllHoldMin =>
          /\ \A n \in PrasleMotes : /\ prasle'[n].mini = prasle[n].mini
                                    /\ prasle'[n].leaderi = prasle[n].leaderi
          /\ prasle_net' \subseteq prasle_net]_vars

\* all motes hold the minimum and have run three more rounds since
C20_Witness ==
    /\ AllHoldMin
    /\ prasle_net = {}
    /\ \A n \in PrasleMotes : prasle[n].done >= Diameter + 4

(***************************************************************************)
(* PraSLE started from a state other than the one initialization leaves:   *)
(* one mote holds arbitrary values in mini, leaderi, temp_mini and         *)
(* temp_leaderi, and round_counter holds an arbitrary value.  The same     *)
(* round_counter is given to every mote, so that all motes take the same   *)
(* delay between rounds and the timing of the loop is the one of           *)
(* SpecPrasle.                                                             *)
(***************************************************************************)
\* the motes whose variables are overwritten: the minimum and the farthest
AnyMotes == {1, 1 + NETWORK_SIZE \div 2}

\* values of (mini, leaderi) and of (temp_mini, temp_leaderi) of mote c:
\* a pair of no mote, the pair of the mote, and the value of initialization
AnyPairs(c) == {<<0, 0>>, <<c, c>>, <<N_MAX + 1, c>>}

AnyCounters == {0, prasle_k + 1}

PrasleAnyInit ==
    /\ prasle_k \in PrasleKs
    /\ \E c \in AnyMotes, rc \in AnyCounters :
        \E cur \in AnyPairs(c), tmp \in AnyPairs(c) :
          prasle = [i \in PrasleMotes |->
                      IF i = c
                      THEN [PrasleBoot(i, prasle_k) EXCEPT
                               !.mini = cur[1], !.leaderi = cur[2],
                               !.temp_mini = tmp[1], !.temp_leaderi = tmp[2],
                               !.round_counter = rc]
                      ELSE [PrasleBoot(i, prasle_k) EXCEPT
                               !.round_counter = rc]]
    /\ prasle_net = {}
    /\ prasle_lost = 0
    /\ BullyIdle
    /\ RingIdle

SpecPrasleAny == PrasleAnyInit /\ [][PrasleNext]_vars

\* C17: started from an arbitrary assignment of mini, leaderi, temp_mini,
\* temp_leaderi and round_counter, once every mote has executed K rounds
\* all motes hold the lexicographic minimum (rank, id) over the motes that
\* exist.
C17_SelfStabilizing ==
    AllDone(prasle_k) =>
        \A n \in PrasleMotes :
            <<prasle[n].mini, prasle[n].leaderi>> =
                <<get_ranking_value(prasle[MinMote]), MinMote>>

(***************************************************************************)
(* PraSLE on a radio that loses broadcasts: at most MaxLoss transmissions  *)
(* are heard by no mote, every later one is heard by every neighbour.      *)
(***************************************************************************)
\* a broadcast on the air is lost
PrasleLose(p) ==
    /\ p \in prasle_net
    /\ InWindow
    /\ prasle_lost < MaxLoss
    /\ prasle_net' = prasle_net \ {p}
    /\ prasle_lost' = prasle_lost + 1
    /\ UNCHANGED <<prasle, prasle_k, bully_vars, ring_vars>>

PrasleLossNext ==
    \/ \E n \in PrasleMotes : PrasleRoundStart(n)
    \/ \E n \in PrasleMotes : PrasleUpdate(n)
    \/ \E p \in prasle_net : PrasleReceive(p)
    \/ \E p \in prasle_net : PrasleLose(p)

SpecPrasleLoss == PrasleInit /\ [][PrasleLossNext]_vars

\* nothing is on the air and no mote has a pair to adopt: no update step
\* will change (mini, leaderi) or broadcast, whatever the number of rounds
\* that follow
PrasleSettled ==
    /\ prasle_net = {}
    /\ \A n \in PrasleMotes :
          ~is_better(prasle[n].temp_mini, prasle[n].temp_leaderi,
                     prasle[n].mini, prasle[n].leaderi)

\* C18: after a finite period in which broadcasts are lost the motes still
\* reach agreement on the global minimum: the network does not come to rest,
\* with nothing left to deliver and nothing left to adopt, before every
\* mote holds the minimum.
C18_LossRecovered == PrasleSettled => AllHoldMin

\* C21: the converged flag of a mote is set only in a step that leaves
\* round_counter <= 0 and (mini, leaderi) = (temp_mini, temp_leaderi); on
\* the 6-ring it is set by the update step that completes round K + 1, is
\* not set before that round, and once set it is never cleared.
C21_ConvergedFlag ==
    [][\A n \in PrasleMotes :
          /\ (~prasle[n].election_converged /\ prasle'[n].election_converged)
                => /\ prasle'[n].round_counter <= 0
                   /\ prasle'[n].mini = prasle'[n].temp_mini
                   /\ prasle'[n].leaderi = prasle'[n].temp_leaderi
                   /\ prasle'[n].done = prasle_k + 1
          /\ prasle'[n].done >= prasle_k + 1 => prasle'[n].election_converged
          /\ prasle'[n].done <= prasle_k => ~prasle'[n].election_converged
          /\ prasle[n].election_converged => prasle'[n].election_converged
      ]_vars

\* a mote has set the flag at the end of round K + 1 while another mote is
\* still in that round with the flag clear
C21_Witness ==
    /\ prasle_k = K_ROUNDS
    /\ \E n, j \in PrasleMotes :
          /\ prasle[n].election_converged
          /\ prasle[n].done = prasle_k + 1
          /\ prasle[n].round_counter = 0
          /\ ~prasle[j].election_converged
          /\ prasle[j].done = prasle_k

\* C33: in the update step of a round a mote whose (temp_mini, temp_leaderi)
\* is strictly below its (mini, leaderi) adopts the temp pair and puts one
\* broadcast on the air, which carries the adopted pair and its own ID; a
\* mote whose temp pair is not below keeps both pairs and sends nothing.
C33_UpdateStep ==
    [][\A n \in PrasleMotes :
          prasle'[n].done = prasle[n].done + 1
          => LET s == prasle[n]
                 t == prasle'[n]
             IN /\ t.temp_mini = s.temp_mini
                /\ t.temp_leaderi = s.temp_leaderi
                /\ IF is_better(s.temp_mini, s.temp_leaderi, s.mini, s.leaderi)
                   THEN /\ t.mini = s.temp_mini
                        /\ t.leaderi = s.temp_leaderi
                        /\ \E p \in prasle_net' \ prasle_net :
                              /\ prasle_net' = prasle_net \cup {p}
                              /\ p.m = prasle_msg_t(s.temp_mini,
                                                    s.temp_leaderi, n)
                   ELSE /\ t.mini = s.mini
                        /\ t.leaderi = s.leaderi
                        /\ prasle_net' = prasle_net]_vars

\* in its second update step mote 2 has adopted the pair of mote 1 and its
\* broadcast of that pair is on the air, while mote 1, whose temp pair was
\* its own, has kept its pair and sent nothing
C33_Witness ==
    /\ prasle[2].done = 2
    /\ prasle[2].mini = 1
    /\ [m |-> prasle_msg_t(1, 1, 2), sent |-> 2] \in prasle_net
    /\ prasle[1].done = 2
    /\ prasle[1].mini = 1
    /\ \A p \in prasle_net : p.m.sender_id # 1

(***************************************************************************)
(* PraSLE with the delay between two rounds as a phase of its own: a mote  *)
(* in range of a broadcast on the air may still be in the delay after its  *)
(* own update step when the broadcast arrives, and input_callback runs on  *)
(* it there as it does in the receive window.  The start of a round is     *)
(* invisible to the other motes, so the motes out of range of the          *)
(* broadcast, and every mote before an update step, are taken to have      *)
(* started their round, as in SpecPrasle.                                  *)
(***************************************************************************)
\* input_callback on every mote in range of the sender, wherever the
\* process of the receiver waits
PrasleGapReceive(p) ==
    /\ p \in prasle_net
    /\ \A j \in PrasleMotes \ Neighbours(p.m.sender_id) :
          prasle[j].pc = "recv"
    /\ prasle' = [n \in PrasleMotes |->
                    IF n \in Neighbours(p.m.sender_id)
                    THEN prasle_handle_message(prasle[n], p.m)
                    ELSE prasle[n]]
    /\ prasle_net' = prasle_net \ {p}
    /\ UNCHANGED <<prasle_k, prasle_lost, bully_vars, ring_vars>>

PrasleGapNext ==
    \/ \E n \in PrasleMotes : PrasleRoundStart(n)
    \/ \E n \in PrasleMotes : PrasleUpdate(n)
    \/ \E p \in prasle_net : PrasleGapReceive(p)

SpecPrasleGap == PrasleInit /\ [][PrasleGapNext]_vars

\* C34: a datagram is folded into (temp_mini, temp_leaderi) of every mote
\* in range whenever it arrives, in the receive window or in a delay; the
\* temp pair is never raised afterwards, and after every update step
\* (mini, leaderi) is not above it: what arrived in the window is in the
\* pair after the update step of that round, what arrived in the delay is
\* in the pair after the update step of the next round.
C34_NoLateDrop ==
    [][/\ \A p \in prasle_net \ prasle_net' :
             \A n \in Neighbours(p.m.sender_id) :
                 ~is_better(p.m.min_value, p.m.leader_id,
                            prasle'[n].temp_mini, prasle'[n].temp_leaderi)
       /\ \A n \in PrasleMotes :
             /\ ~is_better(prasle[n].temp_mini, prasle[n].temp_leaderi,
                           prasle'[n].temp_mini, prasle'[n].temp_leaderi)
             /\ prasle'[n].done = prasle[n].done + 1
                => ~is_better(prasle[n].temp_mini, prasle[n].temp_leaderi,
                              prasle'[n].mini, prasle'[n].leaderi)]_vars

\* mote 2 is in the delay after its first update step and has heard the
\* first broadcast of mote 1 there: the pair of mote 1 is in its temp pair
\* and not yet in its (mini, leaderi)
C34_Witness ==
    /\ prasle[2].pc = "gap"
    /\ prasle[2].done = 1
    /\ prasle[2].mini = 2
    /\ prasle[2].temp_mini = 1
    /\ prasle[2].temp_leaderi = 1

\* C39: (mini, leaderi) of a mote is always either the pair of
\* initialization, (N_MAX + 1, own ID), or the pair (rank, ID) of a mote of
\* the network, which with rank = ID is (j, j); and at the end of each of
\* its update steps it equals (temp_mini, temp_leaderi).
C39_Validity ==
    /\ [](\A n \in PrasleMotes :
             \/ /\ prasle[n].mini = N_MAX + 1
                /\ prasle[n].leaderi = n
             \/ \E j \in PrasleMotes :
                   /\ prasle[n].mini = get_ranking_value(prasle[j])
                   /\ prasle[n].mini = j
                   /\ prasle[n].leaderi = j)
    /\ [][\A n \in PrasleMotes :
             prasle'[n].done = prasle[n].done + 1
             => /\ prasle'[n].mini = prasle'[n].temp_mini
                /\ prasle'[n].leaderi = prasle'[n].temp_leaderi]_vars

\* after three update steps mote 3 holds the pair of mote 1 and mote 4 the
\* pair of mote 2, each equal to the temp pair of the mote
C39_Witness ==
    /\ \A n \in {3, 4} :
          /\ prasle[n].done = 3
          /\ prasle[n].mini = prasle[n].temp_mini
          /\ prasle[n].leaderi = prasle[n].temp_leaderi
    /\ prasle[3].mini = 1 /\ prasle[3].leaderi = 1
    /\ prasle[4].mini = 2 /\ prasle[4].leaderi = 2

(***************************************************************************)
(* init_neighbors in every build: NETWORK_TOPOLOGY and NETWORK_SIZE are    *)
(* compile-time parameters, so a build and the ID of the mote it runs on   *)
(* are chosen at the start.  Here prasle is the state of that one mote:    *)
(* topology and size of its build, my_node_id, neighbors[] as the list of  *)
(* node_id entries, and num_neighbors.  A write to neighbors[i] with       *)
(* i >= MAX_NEIGHBORS is outside the array: the array keeps its            *)
(* MAX_NEIGHBORS entries and num_neighbors, which is declared next to it,  *)
(* may hold any uint8_t value afterwards.                                  *)
(***************************************************************************)
Topologies == {TOPOLOGY_RING, TOPOLOGY_LINE, TOPOLOGY_MESH, TOPOLOGY_CLIQUE}

\* the states init_neighbors can leave
prasle_init_neighbors(s) ==
    LET ids == init_neighbors(s.topology, s.size, s.my_node_id)
    IN IF Len(ids) <= MAX_NEIGHBORS
       THEN {[s EXCEPT !.pc = "boot",
                       !.neighbors = ids,
                       !.num_neighbors = Len(ids)]}
       ELSE {[s EXCEPT !.pc = "overrun",
                       !.neighbors = SubSeq(ids, 1, MAX_NEIGHBORS),
                       !.num_neighbors = c] : c \in 0..255}

PrasleInitNeighbors ==
    /\ prasle.pc = "init"
    /\ prasle' \in prasle_init_neighbors(prasle)
    /\ UNCHANGED <<prasle_net, prasle_k, prasle_lost, bully_vars, ring_vars>>

PrasleBuildInit ==
    /\ \E t \in Topologies : \E z \in 1..N_MAX : \E id \in 1..z :
          prasle = [pc |-> "init", topology |-> t, size |-> z,
                    my_node_id |-> id, neighbors |-> <<>>,
                    num_neighbors |-> 0]
    /\ prasle_net = {}
    /\ prasle_k = K_ROUNDS
    /\ prasle_lost = 0
    /\ BullyIdle
    /\ RingIdle

PrasleBuildNext == PrasleInitNeighbors

SpecPrasleBuild == PrasleBuildInit /\ [][PrasleBuildNext]_vars

\* C40 as claimed: in every build with NETWORK_SIZE <= N_MAX and on every
\* mote with an ID in 1..NETWORK_SIZE, init_neighbors writes no entry
\* outside neighbors[], leaves num_neighbors <= MAX_NEIGHBORS, and every
\* node_id it records is in 1..NETWORK_SIZE and, when NETWORK_SIZE >= 3, is
\* not the ID of the mote.
C40_NeighborsInBounds ==
    prasle.pc # "init"
    => /\ prasle.pc # "overrun"
       /\ prasle.num_neighbors <= MAX_NEIGHBORS
       /\ \A i \in 1..Len(prasle.neighbors) :
             /\ prasle.neighbors[i] \in 1..prasle.size
             /\ prasle.size >= 3 => prasle.neighbors[i] # prasle.my_node_id

====
